---- MODULE Spec2Model ----
(***************************************************************************)
(* A model of the blitz WebSocket protocol engine: the frame codec         *)
(* (src/protocol/frame), the message assembler (src/protocol/message.rs)   *)
(* and the session state machine (src/protocol/websocket.rs), driven over  *)
(* a byte stream whose read / write / flush outcomes are chosen by the     *)
(* environment.                                                            *)
(***************************************************************************)
EXTENDS Integers, Sequences, FiniteSets, TLC

(***************************************************************************)
(* Bounds of the model.                                                    *)
(***************************************************************************)
\* number of user operations (read/write/flush/close) per session
MaxOps == 4
\* length of the blocks long byte strings of the history are kept in
BlockLen == 256

\* number of frames the raw peer may put on the inbound stream
MaxInject == 2
\* write_buffer_size of the buffering configuration
WriteBufferSize == 8
\* max_write_buffer_size - write_buffer_size of the buffering configuration
WriteHeadroom == 1

(***************************************************************************)
(* Generic helpers.                                                        *)
(***************************************************************************)
None == <<>>
Some(x) == <<x>>
IsSome(o) == o /= <<>>
Unwrap(o) == o[1]

Min(a, b) == IF a < b THEN a ELSE b

Take(s, n) == SubSeq(s, 1, n)
Drop(s, n) == SubSeq(s, n + 1, Len(s))

Ok(v) == [ok |-> TRUE, val |-> v, err |-> "none", info |-> None]
Err(e) == [ok |-> FALSE, val |-> None, err |-> e, info |-> None]

\* Error::Capacity(CapacityError::MessageTooLarge { size, max })
MessageTooLarge(size, max) ==
    [ok |-> FALSE, val |-> None, err |-> "Capacity:MessageTooLarge",
     info |-> Some([size |-> size, max |-> max])]

RECURSIVE XorBits(_, _, _)
XorBits(a, b, n) ==
    IF n = 0 THEN 0
    ELSE (((a % 2) + (b % 2)) % 2) + 2 * XorBits(a \div 2, b \div 2, n - 1)

\* `*byte ^= mask[..]` on u8
Xor8(a, b) == XorBits(a, b, 8)

(***************************************************************************)
(* Opcodes (src/protocol/frame/codec.rs).                                  *)
(***************************************************************************)
OpContinuation == 0
OpText == 1
OpBinary == 2
OpClose == 8
OpPing == 9
OpPong == 10

IsControl(op) == op >= 8
IsReservedControl(op) == op >= 11 /\ op <= 15
IsReservedData(op) == op >= 3 /\ op <= 7

MAX_CONTROL_FRAME_PAYLOAD == 125
MAX_HEADER_SIZE == 14

(***************************************************************************)
(* Mask engine (src/protocol/frame/mask.rs).                               *)
(***************************************************************************)
\* buf[i] ^= mask[i & 3], i counted from 0
apply_mask_default(buf, mask) ==
    [i \in 1..Len(buf) |-> Xor8(buf[i], mask[((i - 1) % 4) + 1])]

\* the mask word rotated by the length of the unaligned head
RotateMask(mask, head) == [i \in 1..4 |-> mask[((i - 1 + head) % 4) + 1]]

\* apply_mask on the three parts align_to_mut returns: the prefix byte by
\* byte, the words and the suffix with the rotated mask word
apply_mask_parts(prefix, words, suffix, mask, mask_u32) ==
    apply_mask_default(prefix, mask)
    \o [i \in 1..Len(words) |-> Xor8(words[i], mask_u32[((i - 1) % 4) + 1])]
    \o apply_mask_default(suffix, mask_u32)

\* align_to_mut::<u32>, the prefix being plen bytes and the words wlen bytes
align_to_mut(buf, mask, plen, wlen) ==
    apply_mask_parts(Take(buf, plen), SubSeq(buf, plen + 1, plen + wlen),
                     Drop(buf, plen + wlen), mask,
                     IF plen % 4 > 0 THEN RotateMask(mask, plen % 4) ELSE mask)

\* align is the number of bytes before the first 4-byte aligned address of
\* the buffer; align_to_mut returns the whole buffer as prefix when it is
\* shorter than that
apply_mask(buf, mask, align) ==
    align_to_mut(buf, mask, Min(align, Len(buf)),
                 ((Len(buf) - Min(align, Len(buf))) \div 4) * 4)

(***************************************************************************)
(* Frame header (src/protocol/frame/frame.rs).                             *)
(***************************************************************************)
\* impl Default for FrameHeader
FrameHeaderDefault ==
    [fin |-> FALSE, rsv1 |-> FALSE, rsv2 |-> FALSE, rsv3 |-> FALSE,
     opcode |-> OpClose, mask |-> None]

\* Length::for_len + Length::additional
LengthAdditional(len) == IF len < 126 THEN 0 ELSE IF len < 65536 THEN 2 ELSE 8

\* Length::for_len + Length::len_byte
LengthByte(len) == IF len < 126 THEN len ELSE IF len < 65536 THEN 126 ELSE 127

\* Length::for_byte + Length::additional
LengthForByte(b) == IF b % 128 = 126 THEN 2 ELSE IF b % 128 = 127 THEN 8 ELSE 0

\* big-endian encoding of v in n bytes
RECURSIVE ToBe(_, _)
ToBe(v, n) == IF n = 0 THEN <<>> ELSE ToBe(v \div 256, n - 1) \o <<v % 256>>

RECURSIVE FromBe(_)
FromBe(bs) ==
    IF bs = <<>> THEN 0
    ELSE FromBe(Take(bs, Len(bs) - 1)) * 256 + bs[Len(bs)]

\* FrameHeader::len
HeaderLen(header, length) ==
    2 + LengthAdditional(length) + (IF IsSome(header.mask) THEN 4 ELSE 0)

\* FrameHeader::format
HeaderFormat(header, length) ==
    LET first_byte == header.opcode
                      + (IF header.fin THEN 128 ELSE 0)
                      + (IF header.rsv1 THEN 64 ELSE 0)
                      + (IF header.rsv2 THEN 32 ELSE 0)
                      + (IF header.rsv3 THEN 16 ELSE 0)
        second_byte == LengthByte(length) + (IF IsSome(header.mask) THEN 128 ELSE 0)
    IN  <<first_byte, second_byte>>
        \o ToBe(length, LengthAdditional(length))
        \o (IF IsSome(header.mask) THEN Unwrap(header.mask) ELSE <<>>)

\* FrameHeader::parse / parse_internal over the bytes of the cursor.
\* Ok(None): insufficient data, nothing consumed;
\* Ok(Some([header, len, used])): header, payload length, bytes consumed.
HeaderParse(buf) ==
    IF Len(buf) < 2 THEN Ok(None)
    ELSE
    LET a == buf[1]
        b == buf[2]
        len_byte == b % 128
        particular_len == LengthForByte(len_byte)
        masked == b >= 128
        mask_at == 2 + particular_len
        used == mask_at + (IF masked THEN 4 ELSE 0)
        opcode == a % 16
    IN  IF particular_len > 0 /\ ~(particular_len < 8) THEN Err("Panic")
        ELSE IF Len(buf) < mask_at THEN Ok(None)
        ELSE IF Len(buf) < used THEN Ok(None)
        ELSE IF IsReservedControl(opcode) THEN Err("Protocol:UnknownControlOpCode")
        ELSE IF IsReservedData(opcode) THEN Err("Protocol:UnknownDataOpCode")
        ELSE Ok(Some([header |-> [fin |-> (a \div 128) % 2 = 1,
                                  rsv1 |-> (a \div 64) % 2 = 1,
                                  rsv2 |-> (a \div 32) % 2 = 1,
                                  rsv3 |-> (a \div 16) % 2 = 1,
                                  opcode |-> opcode,
                                  mask |-> IF masked
                                           THEN Some(SubSeq(buf, mask_at + 1, mask_at + 4))
                                           ELSE None],
                      len |-> IF particular_len > 0
                              THEN FromBe(SubSeq(buf, 3, 2 + particular_len))
                              ELSE len_byte,
                      used |-> used]))

(***************************************************************************)
(* Frame (src/protocol/frame/frame.rs).                                    *)
(***************************************************************************)
\* Frame::new
FrameNew(header, payload) == [header |-> header, payload |-> payload]

\* Frame::len
FrameLen(frame) == HeaderLen(frame.header, Len(frame.payload)) + Len(frame.payload)

\* Frame::new_data
new_data(data, opcode, fin) ==
    [header |-> [FrameHeaderDefault EXCEPT !.fin = fin, !.opcode = opcode],
     payload |-> data]

\* Frame::new_ping
new_ping(data) ==
    [header |-> [FrameHeaderDefault EXCEPT !.opcode = OpPing], payload |-> data]

\* Frame::new_pong
new_pong(data) ==
    [header |-> [FrameHeaderDefault EXCEPT !.opcode = OpPong], payload |-> data]

\* Frame::into_buf: the bytes appended to the out buffer
into_buf(frame, align) ==
    HeaderFormat(frame.header, Len(frame.payload))
    \o (IF IsSome(frame.header.mask)
        THEN apply_mask(frame.payload, Unwrap(frame.header.mask), align)
        ELSE frame.payload)

(***************************************************************************)
(* UTF-8 validation (std::str::from_utf8 and the streaming decoder used    *)
(* by StringCollector in src/protocol/message.rs).                         *)
(***************************************************************************)
\* number of bytes of the sequence introduced by lead byte b; 0 if b cannot
\* start a sequence
Utf8Width(b) ==
    IF b < 128 THEN 1
    ELSE IF b >= 194 /\ b <= 223 THEN 2
    ELSE IF b >= 224 /\ b <= 239 THEN 3
    ELSE IF b >= 240 /\ b <= 244 THEN 4
    ELSE 0

\* is c a legal j-th byte (j >= 2) after lead byte b
Utf8Follows(b, j, c) ==
    IF j = 2 /\ b = 224 THEN c >= 160 /\ c <= 191
    ELSE IF j = 2 /\ b = 237 THEN c >= 128 /\ c <= 159
    ELSE IF j = 2 /\ b = 240 THEN c >= 144 /\ c <= 191
    ELSE IF j = 2 /\ b = 244 THEN c >= 128 /\ c <= 143
    ELSE c >= 128 /\ c <= 191

\* decode one code point at the head of a non-empty input:
\* "ok" with its width, "incomplete" (input is a proper prefix of a
\* sequence) or "invalid"
Utf8First(input) ==
    LET b == input[1]
        w == Utf8Width(b)
        have == Min(w, Len(input))
    IN  IF w = 0 THEN [status |-> "invalid", width |-> 0]
        ELSE IF \E j \in 2..have : ~Utf8Follows(b, j, input[j])
             THEN [status |-> "invalid", width |-> 0]
        ELSE IF Len(input) < w THEN [status |-> "incomplete", width |-> 0]
        ELSE [status |-> "ok", width |-> w]

\* utf8::decode: length of the valid prefix and what stopped the decoder
RECURSIVE Utf8Decode(_, _)
Utf8Decode(input, done) ==
    IF done = Len(input) THEN [status |-> "ok", valid |-> done]
    ELSE LET f == Utf8First(Drop(input, done))
         IN  IF f.status = "ok" THEN Utf8Decode(input, done + f.width)
             ELSE [status |-> f.status, valid |-> done]

\* std::str::from_utf8(..).is_ok()
IsUtf8(bytes) == Utf8Decode(bytes, 0).status = "ok"

(***************************************************************************)
(* Close codes and close frames (codec.rs, frame.rs).                      *)
(***************************************************************************)
\* impl From<u16> for CloseCode
CloseCodeFromU16(value) ==
    LET tag == IF value = 1000 THEN "Normal"
               ELSE IF value = 1001 THEN "Away"
               ELSE IF value = 1002 THEN "Protocol"
               ELSE IF value = 1003 THEN "Unsupported"
               ELSE IF value = 1005 THEN "Status"
               ELSE IF value = 1006 THEN "Abnormal"
               ELSE IF value = 1007 THEN "Invalid"
               ELSE IF value = 1008 THEN "Policy"
               ELSE IF value = 1009 THEN "Size"
               ELSE IF value = 1010 THEN "Extension"
               ELSE IF value = 1011 THEN "Error"
               ELSE IF value = 1012 THEN "Restart"
               ELSE IF value = 1013 THEN "Again"
               ELSE IF value = 1015 THEN "Tls"
               ELSE IF value >= 1 /\ value <= 999 THEN "Bad"
               ELSE IF value >= 1016 /\ value <= 2999 THEN "Reserved"
               ELSE IF value >= 3000 /\ value <= 3999 THEN "Iana"
               ELSE IF value >= 4000 /\ value <= 4999 THEN "Library"
               ELSE "Bad"
    IN  [tag |-> tag, val |-> value]

\* impl From<CloseCode> for u16
CloseCodeToU16(code) ==
    CASE code.tag = "Normal" -> 1000
      [] code.tag = "Away" -> 1001
      [] code.tag = "Protocol" -> 1002
      [] code.tag = "Unsupported" -> 1003
      [] code.tag = "Status" -> 1005
      [] code.tag = "Abnormal" -> 1006
      [] code.tag = "Invalid" -> 1007
      [] code.tag = "Policy" -> 1008
      [] code.tag = "Size" -> 1009
      [] code.tag = "Extension" -> 1010
      [] code.tag = "Error" -> 1011
      [] code.tag = "Restart" -> 1012
      [] code.tag = "Again" -> 1013
      [] code.tag = "Tls" -> 1015
      [] OTHER -> code.val

\* CloseCode::allowed
allowed(code) == code.tag \notin {"Bad", "Reserved", "Status", "Abnormal", "Tls"}

CloseFrame(code, reason) == [code |-> code, reason |-> reason]

\* Frame::new_close
new_close(msg) ==
    [header |-> FrameHeaderDefault,
     payload |-> IF IsSome(msg)
                 THEN ToBe(CloseCodeToU16(Unwrap(msg).code), 2) \o Unwrap(msg).reason
                 ELSE <<>>]

\* Frame::into_close
into_close(frame) ==
    IF Len(frame.payload) = 0 THEN Ok(None)
    ELSE IF Len(frame.payload) = 1 THEN Err("Protocol:InvalidCloseFrame")
    ELSE IF ~IsUtf8(Drop(frame.payload, 2)) THEN Err("Utf8")
    ELSE Ok(Some(CloseFrame(CloseCodeFromU16(FromBe(Take(frame.payload, 2))),
                            Drop(frame.payload, 2))))

(***************************************************************************)
(* Messages and the message assembler (src/protocol/message.rs).           *)
(***************************************************************************)
\* enum Message: data is the payload of Text/Binary/Ping/Pong, close the
\* Option<CloseFrame> of Close, frame the Frame of Frame
Msg(type, data, close, frame) == [type |-> type, data |-> data, close |-> close, frame |-> frame]
MsgText(data) == Msg("Text", data, None, None)
MsgBinary(data) == Msg("Binary", data, None, None)
MsgPing(data) == Msg("Ping", data, None, None)
MsgPong(data) == Msg("Pong", data, None, None)
MsgClose(close) == Msg("Close", <<>>, close, None)
MsgFrame(frame) == Msg("Frame", <<>>, None, Some(frame))

\* IncompleteMessage::new (StringCollector::new for Text, Vec::new for Binary)
IncompleteNew(msg_type) == [type |-> msg_type, data |-> <<>>, incomplete |-> <<>>]

\* IncompleteMessage::len / StringCollector::len
IncompleteLen(m) == Len(m.data) + Len(m.incomplete)

\* StringCollector::extend; m is the collector as the call leaves it
StringCollectorExtend(m, tail) ==
    LET joined == m.incomplete \o tail
        head == IF m.incomplete /= <<>> /\ tail /= <<>>
                THEN Utf8First(joined)
                ELSE [status |-> "none", width |-> 0]
        \* after try_complete: collected data, pending bytes and rest of input
        data1 == IF head.status = "ok" THEN m.data \o Take(joined, head.width) ELSE m.data
        pend1 == IF head.status = "ok" THEN <<>>
                 ELSE IF head.status = "incomplete" THEN joined
                 ELSE m.incomplete
        input == IF head.status = "ok" THEN Drop(joined, head.width)
                 ELSE IF head.status = "incomplete" THEN <<>>
                 ELSE tail
        d == Utf8Decode(input, 0)
    IN  IF head.status = "invalid"
        THEN [m |-> [m EXCEPT !.incomplete = <<>>], r |-> Err("Utf8")]
        ELSE IF input = <<>>
        THEN [m |-> [m EXCEPT !.data = data1, !.incomplete = pend1], r |-> Ok(None)]
        ELSE IF d.status = "ok"
        THEN [m |-> [m EXCEPT !.data = data1 \o input, !.incomplete = pend1], r |-> Ok(None)]
        ELSE IF d.status = "incomplete"
        THEN [m |-> [m EXCEPT !.data = data1 \o Take(input, d.valid),
                              !.incomplete = Drop(input, d.valid)],
              r |-> Ok(None)]
        ELSE [m |-> [m EXCEPT !.data = data1 \o Take(input, d.valid), !.incomplete = pend1],
              r |-> Err("Utf8")]

\* a collector that keeps the last fragment only
IncompleteExtendLast(m, tail, limit) ==
    [m |-> [m EXCEPT !.data = tail], r |-> Ok(None)]

\* IncompleteMessage::extend; max is limit.unwrap_or(usize::MAX)
IncompleteExtend(m, tail, limit) ==
    LET size == IncompleteLen(m)
        portion == Len(tail)
    IN  IF IsSome(limit) /\ (size > Unwrap(limit) \/ portion > Unwrap(limit) - size)
        THEN [m |-> m, r |-> MessageTooLarge(size + portion, Unwrap(limit))]
        ELSE IF m.type = "Binary"
        THEN [m |-> [m EXCEPT !.data = m.data \o tail], r |-> Ok(None)]
        ELSE StringCollectorExtend(m, tail)

\* IncompleteMessage::complete / StringCollector::into_string
IncompleteComplete(m) ==
    IF m.type = "Binary" THEN Ok(MsgBinary(m.data))
    ELSE IF m.incomplete /= <<>> THEN Err("Utf8")
    ELSE Ok(MsgText(m.data))

\* a check that lets one byte more than the limit pass
check_max_size_lax(size, max) ==
    IF IsSome(max) /\ size > Unwrap(max) + 1 THEN MessageTooLarge(size, Unwrap(max))
    ELSE Ok(None)

\* check_max_size (websocket.rs)
check_max_size(size, max) ==
    IF IsSome(max) /\ size > Unwrap(max) THEN MessageTooLarge(size, Unwrap(max)) ELSE Ok(None)

(***************************************************************************)
(* The byte stream under a session (the T: Read + Write of WebSocket<T>).  *)
(*   rx      bytes that have arrived and can be read                       *)
(*   rdMode  what read() yields once rx is empty: "block" (WouldBlock),    *)
(*           "eof" (zero bytes), "reset" (ConnectionReset), "err" (other)  *)
(*   rdMax   most bytes one read() call returns                            *)
(*   wrMode  "ok": write() takes everything; otherwise it takes wrCap more *)
(*           bytes and then fails: "block" (WouldBlock), "zero" (returns   *)
(*           Ok(0)), "reset" (ConnectionReset), "err" (other error)        *)
(*   flushBlock  flush() fails with WouldBlock                             *)
(*   tx      the bytes written to the stream                               *)
(*   sent    how many bytes of tx have been carried to the peer            *)
(*   log     the frames FrameCodec::write has accepted, in order           *)
(***************************************************************************)
UsizeMax == 2147483647

NewStream ==
    [rx |-> <<>>, rdMode |-> "block", rdMax |-> UsizeMax,
     wrMode |-> "ok", wrCap |-> 0, flushBlock |-> FALSE, tx |-> <<>>,
     sent |-> 0, log |-> <<>>]

\* Read::read
StreamRead(st) ==
    IF st.rx /= <<>>
    THEN LET n == Min(Len(st.rx), st.rdMax)
         IN  [s |-> [st EXCEPT !.rx = Drop(st.rx, n)], r |-> Ok(Take(st.rx, n))]
    ELSE [s |-> st,
          r |-> CASE st.rdMode = "block" -> Err("Io:WouldBlock")
                  [] st.rdMode = "eof" -> Ok(<<>>)
                  [] st.rdMode = "reset" -> Err("Io:ConnectionReset")
                  [] OTHER -> Err("Io:Other")]

\* Write::flush
StreamFlush(st) == IF st.flushBlock THEN Err("Io:WouldBlock") ELSE Ok(None)

(***************************************************************************)
(* FrameCodec (src/protocol/frame/core.rs).                                *)
(***************************************************************************)
\* FrameCodec::new followed by max_out_buffer_len / out_buffer_write_len
FrameCodecNew(part, config) ==
    [in_buffer |-> part,
     out_buffer |-> <<>>,
     max_out_buffer_len |-> config.max_write_buffer_size,
     out_buffer_write_len |-> config.write_buffer_size,
     header |-> None]

\* FrameCodec::write_out: the whole `while !out_buffer.is_empty()` loop
write_out(codec, st) ==
    LET k == IF st.wrMode = "ok" THEN Len(codec.out_buffer)
             ELSE Min(Len(codec.out_buffer), st.wrCap)
        rest == Drop(codec.out_buffer, k)
        st1 == [st EXCEPT !.tx = st.tx \o Take(codec.out_buffer, k),
                          !.wrCap = IF st.wrMode = "ok" THEN st.wrCap ELSE st.wrCap - k]
    IN  [f |-> [codec EXCEPT !.out_buffer = rest],
         s |-> st1,
         r |-> IF rest = <<>> THEN Ok(None)
               ELSE CASE st.wrMode = "block" -> Err("Io:WouldBlock")
                      [] st.wrMode = "zero" -> Err("Io:ConnectionReset")
                      [] st.wrMode = "reset" -> Err("Io:ConnectionReset")
                      [] OTHER -> Err("Io:Other")]

\* FrameCodec::write, once the frame is in out_buffer: the write-through test
write_if_over(codec, st) ==
    IF Len(codec.out_buffer) > codec.out_buffer_write_len
    THEN write_out(codec, st)
    ELSE [f |-> codec, s |-> st, r |-> Ok(None)]

\* FrameCodec::write
FrameCodecWrite(codec, st, frame, align) ==
    IF FrameLen(frame) + Len(codec.out_buffer) > codec.max_out_buffer_len
    THEN [f |-> codec, s |-> st, r |-> Err("WriteBufferFull")]
    ELSE write_if_over(
             [codec EXCEPT !.out_buffer = codec.out_buffer \o into_buf(frame, align)],
             [st EXCEPT !.log = Append(st.log, frame)])

RECURSIVE CodecReadLoop(_, _, _)

\* a read_in that drops what is buffered when the stream's read() fails
read_in_discarding(codec, rd, max) ==
    IF ~rd.r.ok THEN [f |-> [codec EXCEPT !.in_buffer = <<>>], s |-> rd.s, r |-> rd.r]
    ELSE IF rd.r.val = <<>> THEN [f |-> codec, s |-> rd.s, r |-> Ok(None)]
    ELSE CodecReadLoop([codec EXCEPT !.in_buffer = codec.in_buffer \o rd.r.val], rd.s, max)

\* FrameCodec::read_in, with rd the result of the stream's read()
read_in(codec, rd, max) ==
    IF ~rd.r.ok THEN [f |-> codec, s |-> rd.s, r |-> rd.r]
    ELSE IF rd.r.val = <<>> THEN [f |-> codec, s |-> rd.s, r |-> Ok(None)]
    ELSE CodecReadLoop([codec EXCEPT !.in_buffer = codec.in_buffer \o rd.r.val], rd.s, max)

\* a pass that tests the declared length only once the payload is there
read_payload_late(codec, st, max, parsed) ==
    IF IsSome(codec.header) /\ Unwrap(codec.header).len <= Len(codec.in_buffer)
    THEN IF IsSome(max) /\ Unwrap(codec.header).len > Unwrap(max)
         THEN [f |-> codec, s |-> st,
               r |-> MessageTooLarge(Unwrap(codec.header).len, Unwrap(max))]
         ELSE [f |-> [codec EXCEPT !.in_buffer = Drop(codec.in_buffer, Unwrap(codec.header).len)],
               s |-> st,
               r |-> Ok(Some(Take(codec.in_buffer, Unwrap(codec.header).len)))]
    ELSE read_in(codec, StreamRead(st), max)

\* one pass of the `loop` of FrameCodec::read from the payload test on;
\* parsed says that this pass has just parsed the header
read_payload(codec, st, max, parsed) ==
    IF parsed /\ IsSome(max) /\ Unwrap(codec.header).len > Unwrap(max)
    THEN [f |-> codec, s |-> st,
          r |-> MessageTooLarge(Unwrap(codec.header).len, Unwrap(max))]
    ELSE IF IsSome(codec.header) /\ Unwrap(codec.header).len <= Len(codec.in_buffer)
    THEN [f |-> [codec EXCEPT !.in_buffer = Drop(codec.in_buffer, Unwrap(codec.header).len)],
          s |-> st,
          r |-> Ok(Some(Take(codec.in_buffer, Unwrap(codec.header).len)))]
    ELSE read_in(codec, StreamRead(st), max)

\* one pass of the `loop` with p the result of FrameHeader::parse
read_header(codec, st, max, p) ==
    IF ~p.ok THEN [f |-> codec, s |-> st, r |-> Err(p.err)]
    ELSE IF IsSome(p.val)
    THEN read_payload([codec EXCEPT !.header = Some([header |-> Unwrap(p.val).header,
                                                      len |-> Unwrap(p.val).len]),
                                    !.in_buffer = Drop(codec.in_buffer, Unwrap(p.val).used)],
                      st, max, TRUE)
    ELSE read_payload(codec, st, max, FALSE)

\* the `loop` of FrameCodec::read: Ok(Some(payload)) is the `break`
CodecReadLoop(codec, st, max) ==
    IF codec.header = None
    THEN read_header(codec, st, max, HeaderParse(codec.in_buffer))
    ELSE read_payload(codec, st, max, FALSE)

\* a codec that takes unmasked frames whatever the configuration says
read_frame_lenient(l, unmask, accept_unmasked, align) ==
    IF ~l.r.ok \/ l.r.val = None THEN l
    ELSE LET header == Unwrap(l.f.header).header
             payload == Unwrap(l.r.val)
             c1 == [l.f EXCEPT !.header = None]
         IN  IF unmask /\ IsSome(header.mask)
             THEN [f |-> c1, s |-> l.s,
                   r |-> Ok(Some(FrameNew([header EXCEPT !.mask = None],
                                          apply_mask(payload, Unwrap(header.mask), align))))]
             ELSE [f |-> c1, s |-> l.s, r |-> Ok(Some(FrameNew(header, payload)))]

\* FrameCodec::read after the loop, l being what the loop left
read_frame(l, unmask, accept_unmasked, align) ==
    IF ~l.r.ok \/ l.r.val = None THEN l
    ELSE LET header == Unwrap(l.f.header).header
             payload == Unwrap(l.r.val)
             c1 == [l.f EXCEPT !.header = None]
         IN  IF unmask /\ IsSome(header.mask)
             THEN [f |-> c1, s |-> l.s,
                   r |-> Ok(Some(FrameNew([header EXCEPT !.mask = None],
                                          apply_mask(payload, Unwrap(header.mask), align))))]
             ELSE IF unmask /\ ~accept_unmasked
             THEN [f |-> c1, s |-> l.s, r |-> Err("Protocol:UnmaskedFrameFromClient")]
             ELSE [f |-> c1, s |-> l.s, r |-> Ok(Some(FrameNew(header, payload)))]

\* FrameCodec::read
FrameCodecRead(codec, st, max, unmask, accept_unmasked, align) ==
    read_frame(CodecReadLoop(codec, st, max), unmask, accept_unmasked, align)

(***************************************************************************)
(* WebSocketState (src/protocol/websocket.rs).                             *)
(***************************************************************************)
\* a session that still sends after its own Close
is_active_or_closing(state) == state \in {"Active", "ClosedByServer"}

\* WebSocketState::is_active
is_active(state) == state = "Active"

\* a session that stops taking frames with its own close()
can_read_active(state) == state = "Active"

\* WebSocketState::can_read
can_read(state) == state \in {"Active", "ClosedByServer"}

\* WebSocketContext::can_read
ws_can_read(c) == can_read(c.state)

\* WebSocketContext::can_write
ws_can_write(c) == is_active(c.state)

\* WebSocketState::check_if_terminated
check_if_terminated(state) ==
    IF state = "Terminated" THEN Err("AlreadyClosed") ELSE Ok(None)

\* CheckConnectionReset::check_connection_reset
check_connection_reset(r, state) ==
    IF ~r.ok /\ r.err = "Io:ConnectionReset" /\ ~can_read(state)
    THEN Err("ConnectionClosed")
    ELSE r

(***************************************************************************)
(* WebSocketContext (src/protocol/websocket.rs).  Every operation maps a   *)
(* context c and a stream s to the new context, the new stream and the     *)
(* returned Result r.  rnd carries what the call draws from outside: the   *)
(* random mask keys k1, k2 and the alignment of the masked buffer.         *)
(***************************************************************************)
\* WebSocketContext::_new / from_partially_read
WebSocketContextNew(part, mode, config) ==
    [mode |-> mode,
     frame |-> FrameCodecNew(part, config),
     state |-> "Active",
     incomplete |-> None,
     additional_send |-> None,
     unflushed_additional |-> FALSE,
     config |-> config]

\* WebSocketContext::set_additional
set_additional(c, additional) ==
    IF c.additional_send = None \/ Unwrap(c.additional_send).header.opcode = OpPong
    THEN [c EXCEPT !.additional_send = Some(additional)]
    ELSE c

\* WebSocketContext::buffer_frame, with w what FrameCodec::write returned
buffer_frame_done(c, w) ==
    [c |-> [c EXCEPT !.frame = w.f], s |-> w.s,
     r |-> check_connection_reset(w.r, c.state)]

\* WebSocketContext::buffer_frame
buffer_frame(c, s, frame, key, align) ==
    buffer_frame_done(c, FrameCodecWrite(c.frame, s,
                                         IF c.mode = "Client"
                                         THEN [frame EXCEPT !.header.mask = Some(key)]
                                         ELSE frame,
                                         align))

\* _write, the server's write_out once it can no longer read; o is its result
write_closing(c, o) ==
    IF ~o.r.ok
    THEN [c |-> [c EXCEPT !.frame = o.f], s |-> o.s, r |-> o.r]
    ELSE [c |-> [c EXCEPT !.frame = o.f, !.state = "Terminated"],
          s |-> o.s, r |-> Err("ConnectionClosed")]

\* _write from `if self.mode == Server && !self.state.can_read()` on
write_end(c, s, should_flush) ==
    IF c.mode = "Server" /\ ~can_read(c.state)
    THEN write_closing(c, write_out(c.frame, s))
    ELSE [c |-> c, s |-> s, r |-> Ok(should_flush)]

\* a _write that forgets the frame the write buffer had no room for
write_additional_dropped(b, msg) ==
    IF b.r.ok THEN write_end(b.c, b.s, TRUE)
    ELSE IF b.r.err = "WriteBufferFull" THEN write_end(b.c, b.s, FALSE)
    ELSE b

\* _write, the match on buffer_frame(msg): b is its result
write_additional_done(b, msg) ==
    IF b.r.ok THEN write_end(b.c, b.s, TRUE)
    ELSE IF b.r.err = "WriteBufferFull"
         THEN write_end(set_additional(b.c, msg), b.s, FALSE)
    ELSE b

\* _write from `self.additional_send.take()` on
write_additional(c, s, rnd) ==
    IF IsSome(c.additional_send)
    THEN write_additional_done(
             buffer_frame([c EXCEPT !.additional_send = None], s,
                          Unwrap(c.additional_send), rnd.k2, rnd.align),
             Unwrap(c.additional_send))
    ELSE write_end(c, s, c.unflushed_additional)

\* _write, the `?` on buffer_frame(data): b is its result
write_data_done(b, rnd) ==
    IF ~b.r.ok THEN b ELSE write_additional(b.c, b.s, rnd)

\* WebSocketContext::_write
ws_write_(c, s, data, rnd) ==
    IF IsSome(data)
    THEN write_data_done(buffer_frame(c, s, Unwrap(data), rnd.k1, rnd.align), rnd)
    ELSE write_additional(c, s, rnd)

\* flush, from `stream.flush()` on: o is what write_out returned
flush_stream(c, o) ==
    IF ~o.r.ok THEN [c |-> [c EXCEPT !.frame = o.f], s |-> o.s, r |-> o.r]
    ELSE IF ~StreamFlush(o.s).ok
         THEN [c |-> [c EXCEPT !.frame = o.f], s |-> o.s, r |-> StreamFlush(o.s)]
    ELSE [c |-> [c EXCEPT !.frame = o.f, !.unflushed_additional = FALSE],
          s |-> o.s, r |-> Ok(None)]

\* flush, from `self.frame.write_out(stream)` on: w is what _write returned
flush_out(w) ==
    IF ~w.r.ok THEN w ELSE flush_stream(w.c, write_out(w.c.frame, w.s))

\* WebSocketContext::flush
ws_flush(c, s, rnd) == flush_out(ws_write_(c, s, None, rnd))

\* close, the `?` on _write: w is its result
close_flush(w, rnd) == IF ~w.r.ok THEN w ELSE ws_flush(w.c, w.s, rnd)

\* a close that starts the closing handshake in whatever state it is called
ws_close_again(c, s, code, rnd) ==
    close_flush(ws_write_([c EXCEPT !.state = "ClosedByServer"], s,
                          Some(new_close(code)), rnd),
                rnd)

\* WebSocketContext::close
ws_close(c, s, code, rnd) ==
    IF c.state = "Active"
    THEN close_flush(ws_write_([c EXCEPT !.state = "ClosedByServer"], s,
                               Some(new_close(code)), rnd),
                     rnd)
    ELSE ws_flush(c, s, rnd)

\* a Result<bool> or Result<Option<..>> turned into Result<()>
discard(w) == IF w.r.ok THEN [w EXCEPT !.r = Ok(None)] ELSE w

\* write, `if should_flush { self.flush(stream)? }`: w is what _write returned
write_flush(w, rnd) ==
    IF w.r.ok /\ w.r.val THEN discard(ws_flush(w.c, w.s, rnd)) ELSE discard(w)

\* WebSocketContext::write
ws_write(c, s, msg, rnd) ==
    IF ~check_if_terminated(c.state).ok
    THEN [c |-> c, s |-> s, r |-> check_if_terminated(c.state)]
    ELSE IF ~is_active(c.state)
         THEN [c |-> c, s |-> s, r |-> Err("Protocol:SendAfterClose")]
    ELSE IF msg.type = "Pong"
         THEN discard(ws_write_(set_additional(c, new_pong(msg.data)), s, None, rnd))
    ELSE IF msg.type = "Close" THEN ws_close(c, s, msg.close, rnd)
    ELSE write_flush(
             ws_write_(c, s,
                       Some(CASE msg.type = "Text" -> new_data(msg.data, OpText, TRUE)
                              [] msg.type = "Binary" -> new_data(msg.data, OpBinary, TRUE)
                              [] msg.type = "Ping" -> new_ping(msg.data)
                              [] OTHER -> Unwrap(msg.frame)),
                       rnd),
             rnd)

\* a session that answers the Close that acknowledges its own
try_close_echo(c, close) ==
    CASE c.state = "Active" ->
            LET cl == IF IsSome(close) /\ ~allowed(Unwrap(close).code)
                      THEN Some(CloseFrame([tag |-> "Protocol", val |-> 1002],
                                           <<80, 114, 111, 116, 111, 99, 111, 108, 32,
                                             118, 105, 111, 108, 97, 116, 111, 105, 110>>))
                      ELSE close
            IN  [c |-> set_additional([c EXCEPT !.state = "ClosedByPeer"], new_close(cl)),
                 val |-> Some(cl)]
      [] c.state \in {"ClosedByPeer", "CloseAcknowledged"} -> [c |-> c, val |-> None]
      [] c.state = "ClosedByServer" ->
            [c |-> set_additional([c EXCEPT !.state = "CloseAcknowledged"], new_close(close)),
             val |-> Some(close)]
      [] OTHER -> [c |-> c, val |-> "unreachable"]

\* WebSocketContext::try_close; val is the Option<Option<CloseFrame>>
try_close(c, close) ==
    CASE c.state = "Active" ->
            LET cl == IF IsSome(close) /\ ~allowed(Unwrap(close).code)
                      THEN Some(CloseFrame([tag |-> "Protocol", val |-> 1002],
                                           <<80, 114, 111, 116, 111, 99, 111, 108, 32,
                                             118, 105, 111, 108, 97, 116, 111, 105, 110>>))
                      ELSE close
            IN  [c |-> set_additional([c EXCEPT !.state = "ClosedByPeer"], new_close(cl)),
                 val |-> Some(cl)]
      [] c.state \in {"ClosedByPeer", "CloseAcknowledged"} -> [c |-> c, val |-> None]
      [] c.state = "ClosedByServer" ->
            [c |-> [c EXCEPT !.state = "CloseAcknowledged"], val |-> Some(close)]
      [] OTHER -> [c |-> c, val |-> "unreachable"]

\* _read, a Close frame: ic is what Frame::into_close returned; try_close
\* entered in Terminated is unreachable!(), a panic
read_close(c, s, ic) ==
    IF ~ic.ok THEN [c |-> c, s |-> s, r |-> ic]
    ELSE IF c.state = "Terminated" THEN [c |-> c, s |-> s, r |-> Err("Panic:unreachable")]
    ELSE LET tc == try_close(c, ic.val)
         IN  [c |-> tc.c, s |-> s,
              r |-> IF tc.val = None THEN Ok(None)
                    ELSE Ok(Some(MsgClose(Unwrap(tc.val))))]

\* _read, a Continuation frame: e is what IncompleteMessage::extend returned
read_continue(c, s, fin, e) ==
    IF ~e.r.ok THEN [c |-> [c EXCEPT !.incomplete = Some(e.m)], s |-> s, r |-> e.r]
    ELSE IF ~fin
         THEN [c |-> [c EXCEPT !.incomplete = Some(e.m)], s |-> s, r |-> Ok(None)]
    ELSE IF ~IncompleteComplete(e.m).ok
         THEN [c |-> [c EXCEPT !.incomplete = None], s |-> s, r |-> IncompleteComplete(e.m)]
    ELSE [c |-> [c EXCEPT !.incomplete = None], s |-> s,
          r |-> Ok(Some(IncompleteComplete(e.m).val))]

\* _read, a first fragment: e is what IncompleteMessage::extend returned
read_first(c, s, e) ==
    IF ~e.r.ok THEN [c |-> c, s |-> s, r |-> e.r]
    ELSE [c |-> [c EXCEPT !.incomplete = Some(e.m)], s |-> s, r |-> Ok(None)]

\* a session that acts on a control frame without the checks on it
read_control_unchecked(c, s, frame) ==
    IF frame.header.opcode = OpClose THEN read_close(c, s, into_close(frame))
    ELSE IF IsReservedControl(frame.header.opcode)
    THEN [c |-> c, s |-> s, r |-> Err("Protocol:UnknownControlOpCode")]
    ELSE IF frame.header.opcode = OpPing
    THEN [c |-> IF is_active(c.state) THEN set_additional(c, new_pong(frame.payload)) ELSE c,
          s |-> s, r |-> Ok(Some(MsgPing(frame.payload)))]
    ELSE [c |-> c, s |-> s, r |-> Ok(Some(MsgPong(frame.payload)))]

\* _read, `OpCode::Control(ctrl) => match ctrl`
read_control(c, s, frame) ==
    IF ~frame.header.fin
    THEN [c |-> c, s |-> s, r |-> Err("Protocol:FragmentedControlFrame")]
    ELSE IF Len(frame.payload) > MAX_CONTROL_FRAME_PAYLOAD
    THEN [c |-> c, s |-> s, r |-> Err("Protocol:ControlFrameTooBig")]
    ELSE IF frame.header.opcode = OpClose THEN read_close(c, s, into_close(frame))
    ELSE IF IsReservedControl(frame.header.opcode)
    THEN [c |-> c, s |-> s, r |-> Err("Protocol:UnknownControlOpCode")]
    ELSE IF frame.header.opcode = OpPing
    THEN [c |-> IF is_active(c.state) THEN set_additional(c, new_pong(frame.payload)) ELSE c,
          s |-> s, r |-> Ok(Some(MsgPing(frame.payload)))]
    ELSE [c |-> c, s |-> s, r |-> Ok(Some(MsgPong(frame.payload)))]

\* a session that gives up its unfinished message for the new one
read_data_restart(c, s) ==
    [c |-> [c EXCEPT !.incomplete = None], s |-> s, r |-> Err("Protocol:ExpectedFragment")]

\* _read, `data_frag if self.incomplete.is_some()`
read_data_frag(c, s) ==
    [c |-> c, s |-> s, r |-> Err("Protocol:ExpectedFragment")]

\* _read, `if let Some(frame) = ..`: the checks on the frame and the match
\* on its opcode
read_some(c0, s, frame) ==
    LET header == frame.header
        fin == header.fin
        ret(cc, rr) == [c |-> cc, s |-> s, r |-> rr]
    IN  IF ~can_read(c0.state) THEN ret(c0, Err("Protocol:ReceiveAfterClose"))
        ELSE IF header.rsv1 \/ header.rsv2 \/ header.rsv3
             THEN ret(c0, Err("Protocol:NonZeroReservedBits"))
        ELSE IF c0.mode = "Client" /\ IsSome(header.mask)
             THEN ret(c0, Err("Protocol:MaskedFrameFromServer"))
        ELSE IF IsControl(header.opcode)
        THEN read_control(c0, s, frame)
        ELSE IF header.opcode = OpContinuation
        THEN IF c0.incomplete = None
             THEN ret(c0, Err("Protocol:UnexpectedContinue"))
             ELSE read_continue(c0, s, fin,
                                IncompleteExtend(Unwrap(c0.incomplete), frame.payload,
                                                 c0.config.max_message_size))
        ELSE IF IsSome(c0.incomplete)
             THEN read_data_frag(c0, s)
        ELSE IF header.opcode \in {OpText, OpBinary} /\ fin
        THEN IF ~check_max_size(Len(frame.payload), c0.config.max_message_size).ok
             THEN ret(c0, check_max_size(Len(frame.payload), c0.config.max_message_size))
             ELSE IF header.opcode = OpBinary
                  THEN ret(c0, Ok(Some(MsgBinary(frame.payload))))
             ELSE IF ~IsUtf8(frame.payload) THEN ret(c0, Err("Utf8"))
             ELSE ret(c0, Ok(Some(MsgText(frame.payload))))
        ELSE IF header.opcode \in {OpText, OpBinary}
        THEN read_first(c0, s,
                        IncompleteExtend(
                            IncompleteNew(IF header.opcode = OpText THEN "Text" ELSE "Binary"),
                            frame.payload, c0.config.max_message_size))
        ELSE ret(c0, Err("Protocol:UnknownDataOpCode"))

\* a _read that reports the end of the stream and leaves the state as it is
read_codec_open(c, fr) ==
    IF ~check_connection_reset(fr.r, c.state).ok
    THEN [c |-> [c EXCEPT !.frame = fr.f], s |-> fr.s,
          r |-> check_connection_reset(fr.r, c.state)]
    ELSE IF fr.r.val = None
    THEN [c |-> [c EXCEPT !.frame = fr.f],
          s |-> fr.s,
          r |-> IF c.state \in {"ClosedByPeer", "CloseAcknowledged"}
                THEN Err("ConnectionClosed")
                ELSE Err("Protocol:ResetWithoutClosing")]
    ELSE read_some([c EXCEPT !.frame = fr.f], fr.s, Unwrap(fr.r.val))

\* _read, with fr what FrameCodec::read returned
read_codec(c, fr) ==
    IF ~check_connection_reset(fr.r, c.state).ok
    THEN [c |-> [c EXCEPT !.frame = fr.f], s |-> fr.s,
          r |-> check_connection_reset(fr.r, c.state)]
    ELSE IF fr.r.val = None
    THEN [c |-> [c EXCEPT !.frame = fr.f, !.state = "Terminated"],
          s |-> fr.s,
          r |-> IF c.state \in {"ClosedByPeer", "CloseAcknowledged"}
                THEN Err("ConnectionClosed")
                ELSE Err("Protocol:ResetWithoutClosing")]
    ELSE read_some([c EXCEPT !.frame = fr.f], fr.s, Unwrap(fr.r.val))

\* WebSocketContext::_read; r is Ok(Some(message)), Ok(None) or Err
ws_read_(c, s, rnd) ==
    read_codec(c, FrameCodecRead(c.frame, s, c.config.max_frame_size, c.mode = "Server",
                                 c.config.accept_unmasked_frames, rnd.align))

RECURSIVE ReadLoop(_, _, _)

\* read, `if let Some(msg) = self._read(stream)?`: rd is what _read returned
read_message(rd, rnd) ==
    IF ~rd.r.ok THEN rd
    ELSE IF IsSome(rd.r.val) THEN [rd EXCEPT !.r = Ok(Unwrap(rd.r.val))]
    ELSE ReadLoop(rd.c, rd.s, rnd)

\* read, the match on self.flush(stream): f is what flush returned
read_flushed(f, rnd) ==
    IF f.r.ok THEN read_message(ws_read_(f.c, f.s, rnd), rnd)
    ELSE IF f.r.err = "Io:WouldBlock"
         THEN read_message(ws_read_([f.c EXCEPT !.unflushed_additional = TRUE], f.s, rnd),
                           rnd)
    ELSE f

\* WebSocketContext::read, after check_if_terminated: the `loop`
ReadLoop(c, s, rnd) ==
    IF IsSome(c.additional_send) \/ c.unflushed_additional
    THEN read_flushed(ws_flush(c, s, rnd), rnd)
    ELSE IF c.mode = "Server" /\ ~can_read(c.state)
         THEN [c |-> [c EXCEPT !.state = "Terminated"], s |-> s,
               r |-> Err("ConnectionClosed")]
    ELSE read_message(ws_read_(c, s, rnd), rnd)

\* WebSocketContext::read
ws_read(c, s, rnd) ==
    IF ~check_if_terminated(c.state).ok
    THEN [c |-> c, s |-> s, r |-> check_if_terminated(c.state)]
    ELSE ReadLoop(c, s, rnd)

(***************************************************************************)
(* Handshake (src/handshake/machine.rs, core.rs, client.rs; src/buffer.rs, *)
(* src/util.rs).                                                           *)
(***************************************************************************)
\* lib.rs: the chunk of a ReadBuffer
READ_BUFFER_SIZE == 4096

\* the constants of AttackCheck::check_incoming_packet
MAX_BYTES == 65536
MAX_PACKETS == 512
MIN_PACKET_SIZE == 128
MIN_PACKET_CHECK_THRESHOLD == 64

\* NonBlockingResult::no_block
no_block(r) ==
    IF r.ok THEN Ok(Some(r.val))
    ELSE IF r.err = "Io:WouldBlock" THEN Ok(None)
    ELSE r

\* AttackCheck::new
AttackCheckNew == [packets |-> 0, bytes |-> 0]

\* a check that counts the packets and forgets how small they are
check_incoming_packet_sized(a, size) ==
    LET packets == a.packets + 1
        bytes == a.bytes + size
    IN  [a |-> [packets |-> packets, bytes |-> bytes],
         r |-> IF bytes > MAX_BYTES \/ packets > MAX_PACKETS
               THEN Err("AttackAttempt")
               ELSE Ok(None)]

\* AttackCheck::check_incoming_packet
check_incoming_packet(a, size) ==
    LET packets == a.packets + 1
        bytes == a.bytes + size
    IN  [a |-> [packets |-> packets, bytes |-> bytes],
         r |-> IF \/ bytes > MAX_BYTES
                  \/ packets > MAX_PACKETS
                  \/ (packets > MIN_PACKET_CHECK_THRESHOLD /\ packets * MIN_PACKET_SIZE > bytes)
               THEN Err("AttackAttempt")
               ELSE Ok(None)]

\* Write::write of the bytes b
StreamWrite(st, b) ==
    LET k == IF st.wrMode = "ok" THEN Len(b) ELSE Min(Len(b), st.wrCap)
    IN  IF k > 0
        THEN [s |-> [st EXCEPT !.tx = st.tx \o Take(b, k),
                               !.wrCap = IF st.wrMode = "ok" THEN st.wrCap ELSE st.wrCap - k],
              r |-> Ok(k)]
        ELSE [s |-> st,
              r |-> CASE b = <<>> -> Ok(0)
                      [] st.wrMode = "block" -> Err("Io:WouldBlock")
                      [] st.wrMode = "zero" -> Ok(0)
                      [] st.wrMode = "reset" -> Err("Io:ConnectionReset")
                      [] OTHER -> Err("Io:Other")]

\* ReadBuffer::new
ReadBufferNew == [storage |-> <<>>, position |-> 0]

\* ReadBuffer::clean
clean(buf) == [storage |-> Drop(buf.storage, buf.position), position |-> 0]

\* ReadBuffer::read_from: one read() of the stream into the chunk
read_from(buf, st) ==
    LET rd == StreamRead([st EXCEPT !.rdMax = Min(st.rdMax, READ_BUFFER_SIZE)])
    IN  [buf |-> IF rd.r.ok THEN [clean(buf) EXCEPT !.storage = @ \o rd.r.val] ELSE clean(buf),
         s |-> [rd.s EXCEPT !.rdMax = st.rdMax],
         r |-> IF rd.r.ok THEN Ok(Len(rd.r.val)) ELSE rd.r]

\* Buf::chunk for ReadBuffer
chunk(buf) == Drop(buf.storage, buf.position)

\* Buf::advance for ReadBuffer
advance(buf, n) == [buf EXCEPT !.position = @ + n]

\* ReadBuffer::into_vec
into_vec(buf) == clean(buf).storage

\* the end of an HTTP head
HeadEnd == <<13, 10, 13, 10>>

\* the length of the head that data begins with, 0 when its end is not there
HeadLen(data) ==
    IF \E i \in 1..(Len(data) - 3) : SubSeq(data, i, i + 3) = HeadEnd
    THEN 3 + CHOOSE i \in 1..(Len(data) - 3) :
                 /\ SubSeq(data, i, i + 3) = HeadEnd
                 /\ \A j \in 1..(i - 1) : SubSeq(data, j, j + 3) /= HeadEnd
    ELSE 0

\* impl TryParse for Response: httparse::Response::parse over a head that
\* is a status code of three digits and the blank line; Partial is
\* Ok(None), Complete(n) is Ok(Some([size, obj]))
try_parse(data) ==
    IF \E i \in 1..Min(3, Len(data)) : data[i] \notin 48..57
    THEN Err("HttpFormat")
    ELSE IF Len(data) > 3 /\ Take(data, Min(Len(data), 7)) /= Take(SubSeq(data, 1, 3) \o HeadEnd, Min(Len(data), 7))
    THEN Err("HttpFormat")
    ELSE IF HeadLen(data) = 0 THEN Ok(None)
    ELSE Ok(Some([size |-> HeadLen(data),
                  obj |-> [status |-> (data[1] - 48) * 100 + (data[2] - 48) * 10
                                          + (data[3] - 48)]]))

\* VerifyData::verify_response, for a response whose headers are right
verify_response(res) ==
    IF res.status /= 101 THEN Err("Http") ELSE Ok(res)

\* the HandshakeMachine without its stream: HandshakeState::Reading(buf,
\* attack_check), Writing(Cursor {data, position}) or Flushing
Machine(state, buf, attack_check, data, position) ==
    [state |-> state, buf |-> buf, attack_check |-> attack_check,
     data |-> data, position |-> position]

\* HandshakeMachine::start_read
start_read == Machine("Reading", ReadBufferNew, AttackCheckNew, <<>>, 0)

\* HandshakeMachine::start_write
start_write(data) == Machine("Writing", ReadBufferNew, AttackCheckNew, data, 0)

\* RoundResult, and the error single_round returns through `?`
RoundWouldBlock(m, st) ==
    [kind |-> "WouldBlock", m |-> Some(m), s |-> st, r |-> Ok(None), stage |-> None]
RoundIncomplete(m, st) ==
    [kind |-> "Incomplete", m |-> Some(m), s |-> st, r |-> Ok(None), stage |-> None]
RoundFinished(stage, st) ==
    [kind |-> "StageFinished", m |-> None, s |-> st, r |-> Ok(None), stage |-> Some(stage)]
RoundFailed(e, st) ==
    [kind |-> "Failed", m |-> None, s |-> st, r |-> e, stage |-> None]

\* StageResult
DoneReading(result, tail) == [done |-> "Reading", result |-> Some(result), tail |-> tail]
DoneWriting == [done |-> "Writing", result |-> None, tail |-> <<>>]

\* single_round, Reading, with tp what try_parse returned
round_parsed(m, st, buf, attack_check, tp) ==
    IF ~tp.ok THEN RoundFailed(tp, st)
    ELSE IF IsSome(tp.val)
    THEN RoundFinished(DoneReading(Unwrap(tp.val).obj,
                                   into_vec(advance(buf, Unwrap(tp.val).size))), st)
    ELSE RoundIncomplete([m EXCEPT !.buf = buf, !.attack_check = attack_check], st)

\* single_round, Reading, with ck what check_incoming_packet returned
round_checked(m, st, buf, ck) ==
    IF ~ck.r.ok THEN RoundFailed(ck.r, st)
    ELSE round_parsed(m, st, buf, ck.a, try_parse(chunk(buf)))

\* single_round, Reading, with rf what read_from returned and read its no_block
round_read(m, rf, read) ==
    IF ~read.ok THEN RoundFailed(read, rf.s)
    ELSE IF read.val = None THEN RoundWouldBlock([m EXCEPT !.buf = rf.buf], rf.s)
    ELSE IF Unwrap(read.val) = 0 THEN RoundFailed(Err("Protocol:IncompleteHandshake"), rf.s)
    ELSE round_checked(m, rf.s, rf.buf,
                       check_incoming_packet(m.attack_check, Unwrap(read.val)))

\* a round that begins the message again after a write that would block
round_written_rewind(m, w, size) ==
    IF ~size.ok THEN RoundFailed(size, w.s)
    ELSE IF size.val = None THEN RoundWouldBlock([m EXCEPT !.position = 0], w.s)
    ELSE IF ~(Unwrap(size.val) > 0) THEN RoundFailed(Err("Panic"), w.s)
    ELSE IF m.position + Unwrap(size.val) < Len(m.data)
    THEN RoundIncomplete([m EXCEPT !.position = @ + Unwrap(size.val)], w.s)
    ELSE RoundIncomplete(Machine("Flushing", ReadBufferNew, AttackCheckNew, <<>>, 0), w.s)

\* single_round, Writing, with w what the stream's write returned and size
\* its no_block; assert!(size > 0) is a panic
round_written(m, w, size) ==
    IF ~size.ok THEN RoundFailed(size, w.s)
    ELSE IF size.val = None THEN RoundWouldBlock(m, w.s)
    ELSE IF ~(Unwrap(size.val) > 0) THEN RoundFailed(Err("Panic"), w.s)
    ELSE IF m.position + Unwrap(size.val) < Len(m.data)
    THEN RoundIncomplete([m EXCEPT !.position = @ + Unwrap(size.val)], w.s)
    ELSE RoundIncomplete(Machine("Flushing", ReadBufferNew, AttackCheckNew, <<>>, 0), w.s)

\* single_round, Writing; assert!(buf.has_remaining()) is a panic
round_write(m, st) ==
    IF ~(m.position < Len(m.data)) THEN RoundFailed(Err("Panic"), st)
    ELSE round_written(m, StreamWrite(st, Drop(m.data, m.position)),
                       no_block(StreamWrite(st, Drop(m.data, m.position)).r))

\* single_round, Flushing, with f the no_block of what the stream's flush returned
round_flushed(m, st, f) ==
    IF ~f.ok THEN RoundFailed(f, st)
    ELSE IF IsSome(f.val) THEN RoundFinished(DoneWriting, st)
    ELSE RoundWouldBlock(m, st)

\* HandshakeMachine::single_round
single_round(m, st) ==
    CASE m.state = "Reading" -> round_read(m, read_from(m.buf, st), no_block(read_from(m.buf, st).r))
      [] m.state = "Writing" -> round_write(m, st)
      [] OTHER -> round_flushed(m, st, no_block(StreamFlush(st)))

(***************************************************************************)
(* The state machine.  A session is named by its role; ws and stream are   *)
(* functions over the sessions that exist.                                 *)
(***************************************************************************)
VARIABLES
    ws,      \* [session -> WebSocketContext]
    stream,  \* [session -> the transport of the stream it owns]
    wire,    \* [session -> history: every byte it has written to its stream]
    log,     \* [session -> history: the frames its FrameCodec::write accepted]
    last,    \* [session -> the last call: op, state before it, kind of message
             \*  passed, Result]
    ops,     \* [session -> number of calls made]
    inj,     \* [session -> number of deliveries the environment has made to it]
    hist     \* [session -> history of the session: cc, the number of calls that
             \*  returned ConnectionClosed; closed_ok, close() has returned Ok;
             \*  acked, the state has been CloseAcknowledged]

vars == <<ws, stream, wire, log, last, ops, inj, hist>>

Sessions == DOMAIN ws

\* history is kept cut into blocks of BlockLen bytes (the last one shorter)
Blocks(b) ==
    [k \in 1..((Len(b) + BlockLen - 1) \div BlockLen) |->
        SubSeq(b, (k - 1) * BlockLen + 1, Min(k * BlockLen, Len(b)))]

BlocksLen(bl) ==
    IF bl = <<>> THEN 0 ELSE (Len(bl) - 1) * BlockLen + Len(bl[Len(bl)])

ByteAt(bl, i) == bl[((i - 1) \div BlockLen) + 1][((i - 1) % BlockLen) + 1]

\* the n bytes after the first `from` of the bytes that were cut into bl
Slice(bl, from, n) == [i \in 1..n |-> ByteAt(bl, from + i)]

\* the bytes that were cut into the blocks bl
Flat(bl) == Slice(bl, 0, BlocksLen(bl))

\* the blocks bl with the bytes b written after them
Written(bl, b) == IF b = <<>> THEN bl ELSE Blocks(Flat(bl) \o b)

BlockFrames(fs) ==
    [i \in 1..Len(fs) |-> [header |-> fs[i].header, payload |-> Blocks(fs[i].payload)]]

\* every byte session e has written to its stream
Wire(e) == Flat(wire[e])

WireLen(e) == BlocksLen(wire[e])

\* the frames the FrameCodec::write of session e has accepted, in order
Log(e) ==
    [i \in 1..Len(log[e]) |->
        [header |-> log[e][i].header, payload |-> Flat(log[e][i].payload)]]

\* the part of a stream record that is the transport
Transport(s) ==
    [rx |-> s.rx, rdMode |-> s.rdMode, rdMax |-> s.rdMax, wrMode |-> s.wrMode,
     wrCap |-> s.wrCap, flushBlock |-> s.flushBlock, sent |-> s.sent]

\* the stream of session e as one operation sees it: tx and log take what
\* the operation adds
StreamOf(e) ==
    [rx |-> stream[e].rx, rdMode |-> stream[e].rdMode, rdMax |-> stream[e].rdMax,
     wrMode |-> stream[e].wrMode, wrCap |-> stream[e].wrCap,
     flushBlock |-> stream[e].flushBlock, tx |-> <<>>,
     sent |-> stream[e].sent, log |-> <<>>]

Peer(e) == IF e = "Client" THEN "Server" ELSE "Client"

\* inputs drawn by a call
Aligns == 0..3
Rnds == [k1 : {<<1, 2, 3, 4>>}, k2 : {<<255, 0, 170, 85>>}, align : Aligns]

\* close frame {code = 1000, reason = "bye"}
CloseBye == Some(CloseFrame(CloseCodeFromU16(1000), <<98, 121, 101>>))

NoHistory == [cc |-> 0, closed_ok |-> FALSE, acked |-> FALSE, accepted |-> <<>>]

NoCall == [op |-> "none", pre |-> "Active", arg |-> None, r |-> Ok(None)]

\* the frame write() makes of the message msg
FrameOf(msg) ==
    CASE msg.type = "Text" -> new_data(msg.data, OpText, TRUE)
      [] msg.type = "Binary" -> new_data(msg.data, OpBinary, TRUE)
      [] msg.type = "Ping" -> new_ping(msg.data)
      [] msg.type = "Pong" -> new_pong(msg.data)
      [] msg.type = "Close" -> new_close(msg.close)
      [] OTHER -> Unwrap(msg.frame)

\* the results with which write() refuses a message
Refusals == {"WriteBufferFull", "Protocol:SendAfterClose", "AlreadyClosed"}

\* the bookkeeping every call shares: arg is the message passed, if any, and
\* o the operation's outcome
Called(e, op, arg, o) ==
    /\ ops[e] < MaxOps
    /\ ws' = [ws EXCEPT ![e] = o.c]
    /\ stream' = [stream EXCEPT ![e] = Transport(o.s)]
    /\ wire' = [wire EXCEPT ![e] = Written(@, o.s.tx)]
    /\ log' = [log EXCEPT ![e] = @ \o BlockFrames(o.s.log)]
    /\ last' = [last EXCEPT ![e] = [op |-> op, pre |-> ws[e].state,
                                      arg |-> IF arg = None THEN None
                                              ELSE Some(Unwrap(arg).type),
                                      r |-> o.r]]
    /\ ops' = [ops EXCEPT ![e] = @ + 1]
    /\ hist' = [hist EXCEPT
                  ![e].cc = IF ~o.r.ok /\ o.r.err = "ConnectionClosed" THEN @ + 1 ELSE @,
                  ![e].closed_ok = @ \/ (op = "close" /\ o.r.ok),
                  ![e].acked = @ \/ o.c.state = "CloseAcknowledged",
                  ![e].accepted = IF op = "write" /\ (o.r.ok \/ o.r.err \notin Refusals)
                                  THEN @ \o BlockFrames(<<FrameOf(Unwrap(arg))>>)
                                  ELSE @]
    /\ UNCHANGED inj

\* WebSocket::read
Read(e) == \E rnd \in Rnds : Called(e, "read", None, ws_read(ws[e], StreamOf(e), rnd))

\* WebSocket::write
Write(e, msg) ==
    \E rnd \in Rnds : Called(e, "write", Some(msg), ws_write(ws[e], StreamOf(e), msg, rnd))

\* WebSocket::flush
Flush(e) == \E rnd \in Rnds : Called(e, "flush", None, ws_flush(ws[e], StreamOf(e), rnd))

\* WebSocket::close
Close(e, code) ==
    \E rnd \in Rnds : Called(e, "close", Some(MsgClose(code)), ws_close(ws[e], StreamOf(e), code, rnd))

(***************************************************************************)
(* The environment: the raw peer and the transport.                        *)
(***************************************************************************)
\* the bytes a peer that follows the masking rule puts on the wire for frame
WireBytes(e, frame, key) ==
    into_buf(IF e = "Server" THEN [frame EXCEPT !.header.mask = Some(key)] ELSE frame, 0)

PeerKey == <<9, 8, 7, 6>>

\* the raw peer of session e sends one frame and it arrives whole
PeerSend(e, frame) ==
    /\ inj[e] < MaxInject
    /\ stream' = [stream EXCEPT ![e].rx = @ \o WireBytes(e, frame, PeerKey)]
    /\ inj' = [inj EXCEPT ![e] = @ + 1]
    /\ UNCHANGED <<ws, wire, log, last, ops, hist>>

\* the peer of session e closes the connection
PeerEof(e) ==
    /\ stream[e].rdMode = "block"
    /\ stream' = [stream EXCEPT ![e].rdMode = "eof"]
    /\ UNCHANGED <<ws, wire, log, last, ops, inj, hist>>

\* the peer of session e resets the connection: reads fail with ConnectionReset
PeerReset(e) ==
    /\ stream[e].rdMode = "block"
    /\ stream' = [stream EXCEPT ![e].rdMode = "reset"]
    /\ UNCHANGED <<ws, wire, log, last, ops, inj, hist>>

\* the transport of session e stops taking bytes after cap more
SetWrite(e, mode, cap) ==
    /\ stream[e].wrMode = "ok"
    /\ stream' = [stream EXCEPT ![e].wrMode = mode, ![e].wrCap = cap]
    /\ UNCHANGED <<ws, wire, log, last, ops, inj, hist>>

\* the transport of session e takes bytes again
Writable(e) ==
    /\ stream[e].wrMode = "block"
    /\ stream' = [stream EXCEPT ![e].wrMode = "ok", ![e].wrCap = 0]
    /\ UNCHANGED <<ws, wire, log, last, ops, inj, hist>>

(***************************************************************************)
(* Configurations (src/protocol/config.rs).  Both satisfy asset_valid:     *)
(* max_write_buffer_size > write_buffer_size.                              *)
(***************************************************************************)
\* every frame is written to the stream eagerly, no cap on the write buffer
EagerConfig ==
    [write_buffer_size |-> 0,
     max_write_buffer_size |-> UsizeMax,
     max_message_size |-> None,
     max_frame_size |-> None,
     accept_unmasked_frames |-> FALSE]

\* small writes are buffered and the write buffer is capped
BufferingConfig ==
    [EagerConfig EXCEPT !.write_buffer_size = WriteBufferSize,
                        !.max_write_buffer_size = WriteBufferSize + WriteHeadroom]

Configs == {EagerConfig, BufferingConfig}
Modes == {"Client", "Server"}

\* messages the caller passes to write
MaskedPing == MsgFrame(FrameNew([FrameHeaderDefault EXCEPT !.fin = TRUE, !.opcode = OpPing,
                                                           !.mask = Some(<<1, 2, 3, 4>>)],
                                <<112>>))
Msgs == {MsgText(<<97>>), MsgPong(<<113>>)}
AllMsgs == {MsgText(<<97>>), MsgBinary(<<0, 255>>), MsgPing(<<112>>), MsgPong(<<113>>),
            MsgClose(None), MaskedPing}
CloseArgs == {CloseBye}

\* frames a well-behaved raw peer sends
PeerClose == [new_close(CloseBye) EXCEPT !.header.fin = TRUE]
PeerPing == [new_ping(<<112>>) EXCEPT !.header.fin = TRUE]
PeerFrames == {PeerClose, PeerPing}

(***************************************************************************)
(* Spec: one session of either role over a non-blocking transport, with a  *)
(* raw peer that sends well-formed frames.                                 *)
(***************************************************************************)
Init ==
    /\ \E m \in Modes, cfg \in Configs :
          /\ ws = [e \in {m} |-> WebSocketContextNew(<<>>, m, cfg)]
          /\ stream = [e \in {m} |-> Transport(NewStream)]
          /\ wire = [e \in {m} |-> <<>>]
          /\ log = [e \in {m} |-> <<>>]
          /\ last = [e \in {m} |-> NoCall]
          /\ ops = [e \in {m} |-> 0]
          /\ inj = [e \in {m} |-> 0]
          /\ hist = [e \in {m} |-> NoHistory]

DoRead == \E e \in Sessions : Read(e)
DoWrite == \E e \in Sessions, msg \in Msgs : Write(e, msg)
DoFlush == \E e \in Sessions : Flush(e)
DoClose == \E e \in Sessions, code \in CloseArgs : Close(e, code)
DoPeerSend == \E e \in Sessions, frame \in PeerFrames : PeerSend(e, frame)
DoPeerEof == \E e \in Sessions : PeerEof(e)

Next ==
    \/ DoRead
    \/ DoWrite
    \/ DoFlush
    \/ DoClose
    \/ DoPeerSend
    \/ DoPeerEof

Spec == Init /\ [][Next]_vars

(***************************************************************************)
(* SpecPair: a client session and a server session of this library, joined *)
(* by a transport that carries what each writes to the other.              *)
(***************************************************************************)
\* calls each session of the pair makes
MaxPairOps == 3

\* impl Default for WebSocketConfig
DefaultConfig ==
    [write_buffer_size |-> 131072,
     max_write_buffer_size |-> UsizeMax,
     max_message_size |-> Some(67108864),
     max_frame_size |-> Some(67108864),
     accept_unmasked_frames |-> FALSE]

PairConfigs == {EagerConfig, DefaultConfig}

\* Ping(b"abc")
PingAbc == MsgPing(<<97, 98, 99>>)
PairMsgs == {PingAbc}

InitPair ==
    \E cfg \in PairConfigs :
        /\ ws = [e \in Modes |-> WebSocketContextNew(<<>>, e, cfg)]
        /\ stream = [e \in Modes |-> Transport(NewStream)]
        /\ wire = [e \in Modes |-> <<>>]
        /\ log = [e \in Modes |-> <<>>]
        /\ last = [e \in Modes |-> NoCall]
        /\ ops = [e \in Modes |-> 0]
        /\ inj = [e \in Modes |-> 0]
        /\ hist = [e \in Modes |-> NoHistory]

\* the transport carries to the peer all that session e has written
Carry(e) ==
    /\ stream[e].sent < WireLen(e)
    /\ stream' = [stream EXCEPT ![Peer(e)].rx = @ \o Slice(wire[e], stream[e].sent,
                                                        WireLen(e) - stream[e].sent),
                                ![e].sent = WireLen(e)]
    /\ UNCHANGED <<ws, wire, log, last, ops, inj, hist>>

\* session e's side drops the connection once all it wrote has been carried
Hangup(e) ==
    /\ stream[e].sent = WireLen(e)
    /\ stream[Peer(e)].rdMode = "block"
    /\ stream' = [stream EXCEPT ![Peer(e)].rdMode = "eof"]
    /\ UNCHANGED <<ws, wire, log, last, ops, inj, hist>>

PairRead == \E e \in Sessions : ops[e] < MaxPairOps /\ Read(e)
PairWrite == \E e \in Sessions, msg \in PairMsgs : ops[e] < MaxPairOps /\ Write(e, msg)
PairFlush == \E e \in Sessions : ops[e] < MaxPairOps /\ Flush(e)
PairClose == \E e \in Sessions, code \in CloseArgs : ops[e] < MaxPairOps /\ Close(e, code)
PairCarry == \E e \in Sessions : Carry(e)
PairHangup == \E e \in Sessions : Hangup(e)

NextPair ==
    \/ PairRead
    \/ PairWrite
    \/ PairFlush
    \/ PairClose
    \/ PairCarry
    \/ PairHangup

SpecPair == InitPair /\ [][NextPair]_vars

(***************************************************************************)
(* SpecEmit: one session of either role that is passed every kind of       *)
(* message, a raw frame included, and answers the frames of a raw peer.    *)
(***************************************************************************)
\* calls the session makes
MaxEmitOps == 3

EmitRead == \E e \in Sessions : ops[e] < MaxEmitOps /\ Read(e)
EmitWrite == \E e \in Sessions, msg \in AllMsgs : ops[e] < MaxEmitOps /\ Write(e, msg)
EmitFlush == \E e \in Sessions : ops[e] < MaxEmitOps /\ Flush(e)
EmitClose == \E e \in Sessions, code \in CloseArgs : ops[e] < MaxEmitOps /\ Close(e, code)
EmitPeerSend == \E e \in Sessions, frame \in PeerFrames : PeerSend(e, frame)

NextEmit ==
    \/ EmitRead
    \/ EmitWrite
    \/ EmitFlush
    \/ EmitClose
    \/ EmitPeerSend

SpecEmit == Init /\ [][NextEmit]_vars

(***************************************************************************)
(* SpecText: a client session writes one Text message and flushes; the     *)
(* transport carries the bytes to a server session a chunk at a time; the  *)
(* server's stream hands them out rdMax bytes per read; the server reads   *)
(* until a call returns something other than WouldBlock.                   *)
(***************************************************************************)
\* chunks the transport cuts the client's bytes into
MaxChunks == 3
\* sizes of the chunks that are not the last one
MaxChunkLen == 2

\* a string of 65536 bytes, the first length that takes the 64-bit form
LongText == [i \in 1..65536 |-> 97]

\* "", "a", "e-acute", "euro sign" followed by "!", and the long string
Texts == {<<>>, <<97>>, <<195, 169>>, <<226, 130, 172, 33>>, LongText}

\* bytes one read() of the server's stream returns at most
ReadSizes == {1, UsizeMax}

InitText ==
    \E cfg \in PairConfigs, n \in ReadSizes :
        /\ ws = [e \in Modes |-> WebSocketContextNew(<<>>, e, cfg)]
        /\ stream = [e \in Modes |->
                        Transport(IF e = "Server"
                                  THEN [NewStream EXCEPT !.rdMax = n]
                                  ELSE NewStream)]
        /\ wire = [e \in Modes |-> <<>>]
        /\ log = [e \in Modes |-> <<>>]
        /\ last = [e \in Modes |-> NoCall]
        /\ ops = [e \in Modes |-> 0]
        /\ inj = [e \in Modes |-> 0]
        /\ hist = [e \in Modes |-> NoHistory]

\* the transport carries the next n bytes session e has written to the peer
CarryBytes(e, n) ==
    /\ n >= 1
    /\ stream[e].sent + n <= WireLen(e)
    /\ inj[Peer(e)] < MaxChunks
    /\ stream' = [stream EXCEPT
                    ![Peer(e)].rx = @ \o Slice(wire[e], stream[e].sent, n),
                    ![e].sent = @ + n]
    /\ inj' = [inj EXCEPT ![Peer(e)] = @ + 1]
    /\ UNCHANGED <<ws, wire, log, last, ops, hist>>

TextWrite == \E text \in Texts : ops["Client"] = 0 /\ Write("Client", MsgText(text))
TextFlush == ops["Client"] = 1 /\ Flush("Client")
TextCarry ==
    \E n \in (1..MaxChunkLen) \cup {WireLen("Client") - stream["Client"].sent} :
        CarryBytes("Client", n)
TextRead ==
    /\ last["Server"].op = "none" \/ last["Server"].r = Err("Io:WouldBlock")
    /\ Read("Server")

NextText ==
    \/ TextWrite
    \/ TextFlush
    \/ TextCarry
    \/ TextRead

SpecText == InitText /\ [][NextText]_vars

(***************************************************************************)
(* SpecFrag: a client session and a server session joined by two pipes.    *)
(* One of them sends a message in fragments, as raw frames                 *)
(* (Message::Frame); the other reads whenever bytes have arrived, until a  *)
(* read returns something else than WouldBlock.                            *)
(***************************************************************************)
\* most fragments of the message
MaxFrags == 3

\* "H", "\u20AC" and "!" in UTF-8, cut inside the three-byte character
FragPayloads == {<<>>, <<72, 226>>, <<130>>, <<172, 33>>}

\* the frames that may follow the frames fs of a fragmented message
Fragments(fs) ==
    IF fs = <<>>
    THEN {new_data(p, opcode, FALSE) : p \in FragPayloads, opcode \in {OpText, OpBinary}}
    ELSE IF fs[Len(fs)].header.fin THEN {}
    ELSE {new_data(p, OpContinuation, fin) : p \in FragPayloads, fin \in BOOLEAN}

FragWrite ==
    \E e \in Sessions :
        /\ Len(log[e]) < MaxFrags
        /\ log[Peer(e)] = <<>>
        /\ last[e].op /= "read"
        /\ \E frame \in Fragments(Log(e)) : Write(e, MsgFrame(frame))
FragFlush == \E e \in Sessions : ws[e].frame.out_buffer /= <<>> /\ Flush(e)
FragCarry == \E e \in Sessions : Carry(e)
FragRead ==
    \E e \in Sessions :
        /\ stream[e].rx /= <<>>
        /\ last[e].op = "none" \/ last[e].r = Err("Io:WouldBlock")
        /\ Read(e)

NextFrag ==
    \/ FragWrite
    \/ FragFlush
    \/ FragCarry
    \/ FragRead

SpecFrag == InitPair /\ [][NextFrag]_vars

(***************************************************************************)
(* SpecFlow: one session of either role that writes and flushes over a     *)
(* transport which at times takes only a few bytes more and then reports   *)
(* WouldBlock.  No frame arrives, so every frame is one of a write().      *)
(***************************************************************************)
\* bytes the transport still takes when it starts to block
WriteCaps == {0, 2}

FlowWrite == \E e \in Sessions, msg \in Msgs : Write(e, msg)
FlowFlush == \E e \in Sessions : Flush(e)
FlowBlock == \E e \in Sessions, cap \in WriteCaps : SetWrite(e, "block", cap)
FlowUnblock == \E e \in Sessions : Writable(e)

NextFlow ==
    \/ FlowWrite
    \/ FlowFlush
    \/ FlowBlock
    \/ FlowUnblock

SpecFlow == Init /\ [][NextFlow]_vars

(***************************************************************************)
(* SpecRaw: one session of either role with size limits on frames and      *)
(* messages reads what a raw peer sends: data frames of any kind, final or *)
(* not, in any order, and bare headers that declare a payload beyond the   *)
(* frame limit.                                                            *)
(***************************************************************************)
\* max_message_size 3, max_frame_size 4
LimitedConfig ==
    [EagerConfig EXCEPT !.max_message_size = Some(3), !.max_frame_size = Some(4)]

RawPayloads == {<<97>>, <<98, 99>>, <<100, 101, 102, 103>>}
RawFrames ==
    {new_data(p, opcode, fin) :
        p \in RawPayloads, opcode \in {OpText, OpBinary, OpContinuation}, fin \in BOOLEAN}

\* payload lengths beyond max_frame_size, in the 7-bit and the 16-bit form
RawLengths == {5, 200}

\* the header the raw peer sends ahead of a payload of the given length
RawHeader(e) ==
    IF e = "Server" THEN [new_data(<<>>, OpBinary, TRUE).header EXCEPT !.mask = Some(PeerKey)]
    ELSE new_data(<<>>, OpBinary, TRUE).header

\* the raw peer of session e sends the header of a frame and nothing more
PeerSendHeader(e, length) ==
    /\ inj[e] < MaxInject
    /\ stream' = [stream EXCEPT ![e].rx = @ \o HeaderFormat(RawHeader(e), length)]
    /\ inj' = [inj EXCEPT ![e] = @ + 1]
    /\ UNCHANGED <<ws, wire, log, last, ops, hist>>

InitRaw ==
    /\ \E m \in Modes :
          /\ ws = [e \in {m} |-> WebSocketContextNew(<<>>, m, LimitedConfig)]
          /\ stream = [e \in {m} |-> Transport(NewStream)]
          /\ wire = [e \in {m} |-> <<>>]
          /\ log = [e \in {m} |-> <<>>]
          /\ last = [e \in {m} |-> NoCall]
          /\ ops = [e \in {m} |-> 0]
          /\ inj = [e \in {m} |-> 0]
          /\ hist = [e \in {m} |-> NoHistory]

RawRead == \E e \in Sessions : Read(e)
RawSend == \E e \in Sessions, frame \in RawFrames : PeerSend(e, frame)
RawSendHeader == \E e \in Sessions, length \in RawLengths : PeerSendHeader(e, length)

NextRaw ==
    \/ RawRead
    \/ RawSend
    \/ RawSendHeader

SpecRaw == InitRaw /\ [][NextRaw]_vars

(***************************************************************************)
(* SpecWide: the session and the raw peer of SpecRaw, with a configuration *)
(* whose message limit is above its frame limit.                           *)
(***************************************************************************)
\* max_message_size 8, max_frame_size 4
WideConfig ==
    [EagerConfig EXCEPT !.max_message_size = Some(8), !.max_frame_size = Some(4)]

InitWide ==
    /\ \E m \in Modes :
          /\ ws = [e \in {m} |-> WebSocketContextNew(<<>>, m, WideConfig)]
          /\ stream = [e \in {m} |-> Transport(NewStream)]
          /\ wire = [e \in {m} |-> <<>>]
          /\ log = [e \in {m} |-> <<>>]
          /\ last = [e \in {m} |-> NoCall]
          /\ ops = [e \in {m} |-> 0]
          /\ inj = [e \in {m} |-> 0]
          /\ hist = [e \in {m} |-> NoHistory]

SpecWide == InitWide /\ [][NextRaw]_vars

(***************************************************************************)
(* SpecCtl: one session of either role, strict or accepting unmasked       *)
(* frames, reads what a raw peer sends one frame at a time, masked or not: *)
(* data frames, control frames that are whole, fragmented or too long, and *)
(* Close frames with and without an allowed code.  The session may call    *)
(* close() and its transport may stop taking bytes.                        *)
(***************************************************************************)
\* calls the session of SpecCtl makes
MaxCtlOps == 3
\* frames its raw peer sends
MaxCtlFrames == 2

\* accept_unmasked_frames(true)
PermissiveConfig == [EagerConfig EXCEPT !.accept_unmasked_frames = TRUE]
CtlConfigs == {EagerConfig, PermissiveConfig}

\* close frames {1005, ""} and {1016, ""}: a synthetic and a reserved code
CloseStatus == Some(CloseFrame(CloseCodeFromU16(1005), <<>>))
CloseReserved == Some(CloseFrame(CloseCodeFromU16(1016), <<>>))
CtlCloseArgs == {CloseBye, CloseStatus, CloseReserved}

\* a payload one byte longer than a control frame may carry
BigPayload == [i \in 1..(MAX_CONTROL_FRAME_PAYLOAD + 1) |-> 112]

\* the frame with the FIN bit as given
WithFin(frame, fin) == [frame EXCEPT !.header.fin = fin]

CtlFrames ==
    {new_data(<<97>>, OpText, TRUE), new_data(<<0, 255>>, OpBinary, TRUE),
     WithFin(new_pong(<<113>>), TRUE), WithFin(new_ping(BigPayload), TRUE),
     WithFin(new_close(None), TRUE)}
    \cup {WithFin(new_ping(<<112>>), fin) : fin \in BOOLEAN}
    \cup {WithFin(new_close(close), fin) : close \in {CloseBye, CloseStatus}, fin \in BOOLEAN}

\* the bytes of the frame on the wire, masked with the key or not masked
RawBytes(frame, masked) ==
    into_buf(IF masked THEN [frame EXCEPT !.header.mask = Some(PeerKey)] ELSE frame, 0)

\* the bytes of each frame of the raw peer
CtlWire == [frame \in CtlFrames, masked \in BOOLEAN |-> RawBytes(frame, masked)]

\* the raw peer of session e sends one frame, masked or not, once the session
\* has taken in all that was sent before
PeerSendRaw(e, frame, masked) ==
    /\ inj[e] < MaxCtlFrames
    /\ stream[e].rx = <<>> /\ ws[e].frame.in_buffer = <<>> /\ ws[e].frame.header = None
    /\ stream' = [stream EXCEPT ![e].rx = CtlWire[frame, masked]]
    /\ inj' = [inj EXCEPT ![e] = @ + 1]
    /\ UNCHANGED <<ws, wire, log, last, ops, hist>>

InitCtl ==
    /\ \E m \in Modes, cfg \in CtlConfigs :
          /\ ws = [e \in {m} |-> WebSocketContextNew(<<>>, m, cfg)]
          /\ stream = [e \in {m} |-> Transport(NewStream)]
          /\ wire = [e \in {m} |-> <<>>]
          /\ log = [e \in {m} |-> <<>>]
          /\ last = [e \in {m} |-> NoCall]
          /\ ops = [e \in {m} |-> 0]
          /\ inj = [e \in {m} |-> 0]
          /\ hist = [e \in {m} |-> NoHistory]

CtlRead == \E e \in Sessions : ops[e] < MaxCtlOps /\ Read(e)
CtlClose == \E e \in Sessions, code \in CtlCloseArgs : ops[e] < MaxCtlOps /\ Close(e, code)
CtlSend ==
    \E e \in Sessions, frame \in CtlFrames, masked \in BOOLEAN : PeerSendRaw(e, frame, masked)
CtlBlock == \E e \in Sessions : SetWrite(e, "block", 0)
CtlUnblock == \E e \in Sessions : Writable(e)

NextCtl ==
    \/ CtlRead
    \/ CtlClose
    \/ CtlSend
    \/ CtlBlock
    \/ CtlUnblock

SpecCtl == InitCtl /\ [][NextCtl]_vars

(***************************************************************************)
(* SpecChunk: a client session writes a message in fragments, and Pings,   *)
(* and flushes; the transport carries its bytes to a server session a      *)
(* chunk at a time, cutting anywhere; the server reads at any moment, also *)
(* when nothing or only a part of a frame has arrived.                     *)
(***************************************************************************)
\* read() calls of the server
MaxChunkReads == 3

\* the frames the client may write after n others: "H\u20AC!" in three
\* fragments cut inside the character, or a Binary message, with a Ping in
\* its middle
ChunkFrames(n) ==
    CASE n = 0 -> {MsgFrame(new_data(<<72, 226>>, OpText, FALSE)),
                   MsgFrame(new_data(<<1>>, OpBinary, FALSE))}
      [] n = 1 -> {MsgFrame(new_data(<<130>>, OpContinuation, FALSE)), PingAbc}
      [] OTHER -> {MsgFrame(new_data(<<172, 33>>, OpContinuation, TRUE))}

\* sizes of the chunks, and the rest of what was written
ChunkLens(e) == {1, 3, WireLen(e) - stream[e].sent}

ChunkWrite ==
    /\ Len(log["Client"]) < MaxFrags
    /\ stream["Client"].sent = 0
    /\ \E msg \in ChunkFrames(Len(log["Client"])) : Write("Client", msg)
ChunkFlush ==
    /\ log["Client"] /= <<>>
    /\ ws["Client"].frame.out_buffer /= <<>>
    /\ Flush("Client")
ChunkCarry ==
    /\ ws["Client"].frame.out_buffer = <<>>
    /\ \E n \in ChunkLens("Client") : CarryBytes("Client", n)
ChunkRead == ops["Server"] < MaxChunkReads /\ Read("Server")

NextChunk ==
    \/ ChunkWrite
    \/ ChunkFlush
    \/ ChunkCarry
    \/ ChunkRead

SpecChunk == InitPair /\ [][NextChunk]_vars

(***************************************************************************)
(* SpecEof: one session of either role whose raw peer sends whole frames   *)
(* and beginnings of frames (a part of a header, or a header and a part of *)
(* the payload) and then drops the connection: the stream's read returns   *)
(* zero bytes once what has arrived is consumed.                           *)
(***************************************************************************)
\* calls the session of SpecEof makes
MaxEofOps == 3

\* how many bytes of a frame arrive when it is cut short
PartLens == {1, 3, 7}

\* the raw peer of session e sends the first n bytes of a frame
PeerSendPart(e, frame, n) ==
    /\ inj[e] < MaxInject
    /\ n < Len(WireBytes(e, frame, PeerKey))
    /\ stream[e].rdMode = "block"
    /\ stream' = [stream EXCEPT ![e].rx = @ \o Take(WireBytes(e, frame, PeerKey), n)]
    /\ inj' = [inj EXCEPT ![e] = @ + 1]
    /\ UNCHANGED <<ws, wire, log, last, ops, hist>>

EofRead == \E e \in Sessions : ops[e] < MaxEofOps /\ Read(e)
EofWrite == \E e \in Sessions, msg \in Msgs : ops[e] < MaxEofOps /\ Write(e, msg)
EofClose == \E e \in Sessions, code \in CloseArgs : ops[e] < MaxEofOps /\ Close(e, code)
EofPeerSend ==
    \E e \in Sessions, frame \in PeerFrames : stream[e].rdMode = "block" /\ PeerSend(e, frame)
EofPeerPart == \E e \in Sessions, frame \in PeerFrames, n \in PartLens : PeerSendPart(e, frame, n)
EofPeerEof == \E e \in Sessions : PeerEof(e)

NextEof ==
    \/ EofRead
    \/ EofWrite
    \/ EofClose
    \/ EofPeerSend
    \/ EofPeerPart
    \/ EofPeerEof

SpecEof == Init /\ [][NextEof]_vars

(***************************************************************************)
(* SpecReset: one session of either role whose connection is reset at some *)
(* moment: from then on the stream's read fails with ConnectionReset, or   *)
(* its write fails with ConnectionReset or takes zero bytes.               *)
(***************************************************************************)
\* calls the session of SpecReset makes
MaxResetOps == 3

\* what a write to a reset connection does: "reset" fails with
\* ConnectionReset, "zero" returns Ok(0)
ResetModes == {"reset", "zero"}

ResetRead == \E e \in Sessions : ops[e] < MaxResetOps /\ Read(e)
ResetWrite == \E e \in Sessions, msg \in Msgs : ops[e] < MaxResetOps /\ Write(e, msg)
ResetFlush == \E e \in Sessions : ops[e] < MaxResetOps /\ Flush(e)
ResetClose == \E e \in Sessions, code \in CloseArgs : ops[e] < MaxResetOps /\ Close(e, code)
ResetPeerSend == \E e \in Sessions, frame \in PeerFrames : PeerSend(e, frame)
ResetReads == \E e \in Sessions : PeerReset(e)
ResetWrites == \E e \in Sessions, mode \in ResetModes : SetWrite(e, mode, 0)

NextReset ==
    \/ ResetRead
    \/ ResetWrite
    \/ ResetFlush
    \/ ResetClose
    \/ ResetPeerSend
    \/ ResetReads
    \/ ResetWrites

SpecReset == Init /\ [][NextReset]_vars

(***************************************************************************)
(* SpecHeader: FrameHeader::format and FrameHeader::parse on their own.    *)
(* ws is the header and the payload length, wire the bytes format wrote,   *)
(* stream the cursor parse is given (some bytes already consumed, then the *)
(* first inj bytes of the formatted header), last what parse returned.     *)
(***************************************************************************)
\* the opcodes that are not reserved
KnownOpCodes == {OpContinuation, OpText, OpBinary, OpClose, OpPing, OpPong}

Headers ==
    [fin : BOOLEAN, rsv1 : BOOLEAN, rsv2 : BOOLEAN, rsv3 : BOOLEAN,
     opcode : KnownOpCodes, mask : {None, Some(<<1, 2, 3, 4>>)}]

\* payload lengths on both sides of the changes of the length's form
HeaderLengths == {0, 125, 126, 65535, 65536}

\* what the cursor has consumed before parse is called
Consumed == {<<>>, <<129, 0>>}

\* FrameHeader::parse on a cursor: cur.buf the bytes, cur.pos the position
CursorParse(cur) ==
    LET r == HeaderParse(Drop(cur.buf, cur.pos))
    IN  [cur |-> IF r.ok /\ IsSome(r.val)
                 THEN [cur EXCEPT !.pos = cur.pos + Unwrap(r.val).used]
                 ELSE cur,
         r |-> r]

InitHeader ==
    /\ ws \in [header : Headers, length : HeaderLengths]
    /\ stream = [buf |-> <<>>, pos |-> 0]
    /\ wire = <<>>
    /\ log = <<>>
    /\ last = NoCall
    /\ ops = 0
    /\ inj = 0
    /\ hist = NoHistory

\* header.format(length, &mut output)
FormatHeader ==
    /\ ops = 0
    /\ wire' = HeaderFormat(ws.header, ws.length)
    /\ ops' = 1
    /\ UNCHANGED <<ws, stream, log, last, inj, hist>>

\* the first n bytes of the output are put before a cursor
CutHeader ==
    /\ ops = 1
    /\ \E n \in 0..Len(wire), pre \in Consumed :
          /\ stream' = [buf |-> pre \o Take(wire, n), pos |-> Len(pre)]
          /\ inj' = n
    /\ ops' = 2
    /\ UNCHANGED <<ws, wire, log, last, hist>>

\* FrameHeader::parse(&mut cursor)
ParseHeader ==
    /\ ops = 2
    /\ stream' = CursorParse(stream).cur
    /\ last' = [op |-> "parse", pre |-> stream.pos, arg |-> None, r |-> CursorParse(stream).r]
    /\ ops' = 3
    /\ UNCHANGED <<ws, wire, log, inj, hist>>

NextHeader ==
    \/ FormatHeader
    \/ CutHeader
    \/ ParseHeader

SpecHeader == InitHeader /\ [][NextHeader]_vars

(***************************************************************************)
(* SpecShake: the client handshake against a raw server.  ws["Client"] is  *)
(* the MidHandshake (the role, which is its Option<WebSocketConfig>, and   *)
(* the machine) until handshake() returns the session, then the session;   *)
(* wire["Server"] is all the server will send, carried to the client a     *)
(* chunk at a time; the client's stream may refuse writes and flushes for  *)
(* a while, or take no byte any more.  last["Client"] is the latest call:  *)
(* arg is the tail DoneReading held, rounds the rounds the call made.      *)
(***************************************************************************)
\* handshake() calls of the client
MaxShakeCalls == 5
\* read() calls of the session the handshake returns
MaxShakeReads == 2

\* WebSocket::with_config(stream, mode, config): a session on the stream
\* with nothing read ahead
with_config(mode, config) == WebSocketContextNew(<<>>, mode, config)

\* ClientHandshake::stage_finished; the role is its config
\* (Option<WebSocketConfig>)
stage_finished(role, finish) ==
    IF finish.done = "Writing" THEN [next |-> "Continue", m |-> Some(start_read),
                                     websocket |-> None, r |-> Ok(None)]
    ELSE IF ~verify_response(Unwrap(finish.result)).ok
    THEN [next |-> "Failed", m |-> None, websocket |-> None,
          r |-> verify_response(Unwrap(finish.result))]
    ELSE [next |-> "Done", m |-> None,
          websocket |-> Some(with_config("Client", IF IsSome(role) THEN Unwrap(role)
                                                    ELSE DefaultConfig)),
          r |-> verify_response(Unwrap(finish.result))]

MidHandshake(role, machine) == [role |-> role, machine |-> machine]

\* what a failed handshake leaves: the MidHandshake is consumed
Failed(e) == [failed |-> e]

IsMid(x) == "machine" \in DOMAIN x
IsSession(x) == "frame" \in DOMAIN x

RECURSIVE handshake_round(_, _, _)

\* handshake, the match on what stage_finished returned (sf) for the stage
\* that ended in round n
handshake_stage(role, sf, st, tail, n) ==
    CASE sf.next = "Continue" ->
            handshake_round(role, single_round(Unwrap(sf.m), st), n + 1)
      [] sf.next = "Done" ->
            [c |-> Unwrap(sf.websocket), s |-> st, r |-> sf.r, tail |-> Some(tail),
             rounds |-> n]
      [] OTHER ->
            [c |-> Failed(sf.r.err), s |-> st, r |-> sf.r, tail |-> Some(tail),
             rounds |-> n]

\* handshake, the match on what single_round returned (sr) in round n
handshake_round(role, sr, n) ==
    CASE sr.kind = "WouldBlock" ->
            [c |-> MidHandshake(role, Unwrap(sr.m)), s |-> sr.s, r |-> Err("Interrupted"),
             tail |-> None, rounds |-> n]
      [] sr.kind = "Incomplete" ->
            handshake_round(role, single_round(Unwrap(sr.m), sr.s), n + 1)
      [] sr.kind = "StageFinished" ->
            handshake_stage(role, stage_finished(role, Unwrap(sr.stage)), sr.s,
                            Unwrap(sr.stage).tail, n)
      [] OTHER ->
            [c |-> Failed(sr.r.err), s |-> sr.s, r |-> sr.r, tail |-> None, rounds |-> n]

\* MidHandshake::handshake
handshake(mid, st) == handshake_round(mid.role, single_round(mid.machine, st), 1)

\* the request generate_request wrote: "GET" and the blank line
RequestBytes == <<71, 69, 84>> \o HeadEnd

\* "101" and "404" and the blank line
SwitchingProtocols == <<49, 48, 49>> \o HeadEnd
NotFound == <<52, 48, 52>> \o HeadEnd

\* what the server sends: the response and a Text frame "a" right after
\* it, the response alone, a refusal with a body, and no HTTP at all
Replies ==
    {SwitchingProtocols \o WireBytes("Client", new_data(<<97>>, OpText, TRUE), PeerKey),
     SwitchingProtocols,
     NotFound \o <<33>>,
     <<72, 105>>}

\* how the client's stream takes writes at first
ShakeWrites ==
    {[mode |-> "ok", cap |-> 0], [mode |-> "block", cap |-> 0],
     [mode |-> "block", cap |-> 3], [mode |-> "zero", cap |-> 3]}

InitShake ==
    \E reply \in Replies, w \in ShakeWrites, fb \in BOOLEAN, role \in {None, Some(EagerConfig)} :
        /\ ws = [e \in {"Client"} |-> MidHandshake(role, start_write(RequestBytes))]
        /\ stream = [e \in Modes |->
                        Transport(IF e = "Client"
                                  THEN [NewStream EXCEPT !.wrMode = w.mode, !.wrCap = w.cap,
                                                         !.flushBlock = fb]
                                  ELSE NewStream)]
        /\ wire = [e \in Modes |-> IF e = "Server" THEN Blocks(reply) ELSE <<>>]
        /\ log = [e \in Modes |-> <<>>]
        /\ last = [e \in Modes |-> NoCall]
        /\ ops = [e \in Modes |-> 0]
        /\ inj = [e \in Modes |-> 0]
        /\ hist = [e \in Modes |-> NoHistory]

\* handshake() has returned o
Shaken(e, o) ==
    /\ ws' = [ws EXCEPT ![e] = o.c]
    /\ stream' = [stream EXCEPT ![e] = Transport(o.s)]
    /\ wire' = [wire EXCEPT ![e] = Written(@, o.s.tx)]
    /\ last' = [last EXCEPT ![e] = [op |-> "handshake", pre |-> ws[e].machine.state,
                                      arg |-> o.tail, r |-> o.r, rounds |-> o.rounds]]
    /\ ops' = [ops EXCEPT ![e] = IF o.r.ok THEN 0 ELSE @ + 1]
    /\ UNCHANGED <<log, inj, hist>>

ShakeHandshake ==
    /\ IsMid(ws["Client"])
    /\ ops["Client"] < MaxShakeCalls
    /\ Shaken("Client", handshake(ws["Client"], StreamOf("Client")))
ShakeRead ==
    /\ IsSession(ws["Client"])
    /\ ops["Client"] < MaxShakeReads
    /\ Read("Client")
ShakeCarry ==
    /\ stream["Client"].rdMode = "block"
    /\ \E n \in {1, Len(SwitchingProtocols), WireLen("Server") - stream["Server"].sent} :
          CarryBytes("Server", n)
ShakeWritable == Writable("Client")
ShakeFlushable ==
    /\ stream["Client"].flushBlock
    /\ stream' = [stream EXCEPT !["Client"].flushBlock = FALSE]
    /\ UNCHANGED <<ws, wire, log, last, ops, inj, hist>>
ShakeEof == PeerEof("Client")

NextShake ==
    \/ ShakeHandshake
    \/ ShakeRead
    \/ ShakeCarry
    \/ ShakeWritable
    \/ ShakeFlushable
    \/ ShakeEof

SpecShake == InitShake /\ [][NextShake]_vars

(***************************************************************************)
(* SpecAttack: AttackCheck on its own.  ws is the AttackCheck, stream the  *)
(* sizes of the reads the peer's packets give (the first one, and all the  *)
(* others), last what check_incoming_packet returned for the latest read.  *)
(***************************************************************************)
\* bytes a read returns: a drip, around the least average, a full chunk
PacketSizes == {1, 100, 127, 128, 129, 1000, READ_BUFFER_SIZE}

InitAttack ==
    /\ ws = AttackCheckNew
    /\ stream \in [first : PacketSizes, rest : PacketSizes]
    /\ wire = <<>>
    /\ log = <<>>
    /\ last = NoCall
    /\ ops = 0
    /\ inj = 0
    /\ hist = NoHistory

\* attack_check.check_incoming_packet(count)?: an error ends the handshake
CheckPacket(a, size) ==
    /\ last.r.ok
    /\ ws' = a.a
    /\ last' = [op |-> "check_incoming_packet", pre |-> ws, arg |-> Some(size), r |-> a.r]
    /\ UNCHANGED <<stream, wire, log, ops, inj, hist>>

FirstPacket == ws.packets = 0 /\ CheckPacket(check_incoming_packet(ws, stream.first), stream.first)
NextPacket == ws.packets > 0 /\ CheckPacket(check_incoming_packet(ws, stream.rest), stream.rest)

NextAttack ==
    \/ FirstPacket
    \/ NextPacket

SpecAttack == InitAttack /\ [][NextAttack]_vars

(***************************************************************************)
(* What is on the wire.                                                    *)
(***************************************************************************)
\* the complete frames a receiver finds in bytes: header and wire payload
RECURSIVE ParseFrames(_)
ParseFrames(bytes) ==
    LET p == HeaderParse(bytes)
    IN  IF ~p.ok \/ p.val = None THEN <<>>
        ELSE IF Len(bytes) < Unwrap(p.val).used + Unwrap(p.val).len THEN <<>>
        ELSE <<FrameNew(Unwrap(p.val).header,
                        SubSeq(bytes, Unwrap(p.val).used + 1,
                               Unwrap(p.val).used + Unwrap(p.val).len))>>
             \o ParseFrames(Drop(bytes, Unwrap(p.val).used + Unwrap(p.val).len))

\* frames session e has written to its stream
OnStream(e) == ParseFrames(Wire(e))

\* frames session e has written to its stream or holds in its write buffer
Queued(e) == ParseFrames(Wire(e) \o ws[e].frame.out_buffer)

HasClose(frames) == \E i \in 1..Len(frames) : frames[i].header.opcode = OpClose

Returned(e, op, err) == last[e].op = op /\ ~last[e].r.ok /\ last[e].r.err = err

(***************************************************************************)
(* C1: after close() has returned Ok and the peer's Close has been         *)
(* received, ConnectionClosed is returned at most once, and every call     *)
(* made on the terminated session returns AlreadyClosed.                   *)
(***************************************************************************)
C1_ConnectionClosedOnce ==
    \A e \in Sessions :
        (hist[e].closed_ok /\ hist[e].acked) =>
            /\ hist[e].cc <= 1
            /\ (last[e].op /= "none" /\ last[e].pre = "Terminated")
                  => (~last[e].r.ok /\ last[e].r.err = "AlreadyClosed")

(***************************************************************************)
(* C2: a call of read, write, flush or close made in state Terminated      *)
(* fails with AlreadyClosed, in both roles.                                *)
(***************************************************************************)
C2_TerminatedAlreadyClosed ==
    \A e \in Sessions :
        (last[e].op \in {"read", "write", "flush", "close"} /\ last[e].pre = "Terminated")
            => (~last[e].r.ok /\ last[e].r.err = "AlreadyClosed")

(***************************************************************************)
(* Steps of the pair, seen from outside.                                   *)
(***************************************************************************)
\* this step is a call of op on session e
Calls(e, op) == ops'[e] = ops[e] + 1 /\ last'[e].op = op

\* the only frame session e has written is one of the given opcode, and all
\* of it, nothing else, waits on the peer's stream
OnlyFrameArrived(e, opcode) ==
    /\ Len(Log(e)) = 1
    /\ Log(e)[1].header.opcode = opcode
    /\ ws[e].frame.out_buffer = <<>>
    /\ stream[Peer(e)].rx = Wire(e)
    /\ ws[Peer(e)].frame.in_buffer = <<>>
    /\ ws[Peer(e)].frame.header = None

\* the sessions have written nothing but Close frames
OnlyCloses ==
    \A e \in Sessions : \A i \in 1..Len(Log(e)) :
        Log(e)[i].header.opcode = OpClose

ProtocolErrors ==
    {"Protocol:ControlFrameTooBig", "Protocol:ExpectedFragment",
     "Protocol:FragmentedControlFrame", "Protocol:InvalidCloseFrame",
     "Protocol:MaskedFrameFromServer", "Protocol:NonZeroReservedBits",
     "Protocol:ReceiveAfterClose", "Protocol:ResetWithoutClosing",
     "Protocol:SendAfterClose", "Protocol:UnexpectedContinue",
     "Protocol:UnknownControlOpCode", "Protocol:UnknownDataOpCode",
     "Protocol:UnmaskedFrameFromClient"}

(***************************************************************************)
(* C3: graceful close between a client session and a server session.  The  *)
(* client has called close(Some{1000, "bye"}) and its Close frame has      *)
(* reached the server: the server's read() returns                         *)
(* Message::Close(Some(1000, "bye")) and the echo is queued; the read()    *)
(* the server makes after that returns ConnectionClosed; once the echo has *)
(* been received and the stream has ended, the client's read() returns     *)
(* ConnectionClosed; and while the sessions exchange nothing but Close     *)
(* frames and the stream has not ended no read() returns a Protocol error. *)
(***************************************************************************)
C3_GracefulClose ==
    [][/\ (/\ Calls("Server", "read")
           /\ ws["Server"].state = "Active"
           /\ ws["Client"].state = "ClosedByServer"
           /\ OnlyFrameArrived("Client", OpClose)
           /\ into_close(Log("Client")[1]) = Ok(CloseBye))
          => /\ last'["Server"].r = Ok(MsgClose(CloseBye))
             /\ HasClose(<<Unwrap(ws'["Server"].additional_send)>> \o Queued("Server")')
       /\ (Calls("Server", "read") /\ ws["Server"].state = "ClosedByPeer")
          => last'["Server"].r = Err("ConnectionClosed")
       /\ (/\ Calls("Client", "read")
           /\ ws["Client"].state = "CloseAcknowledged"
           /\ stream["Client"].rx = <<>>
           /\ stream["Client"].rdMode = "eof")
          => last'["Client"].r = Err("ConnectionClosed")
       /\ \A e \in Sessions :
             (Calls(e, "read") /\ stream[e].rdMode = "block" /\ OnlyCloses)
                => (last'[e].r.ok \/ last'[e].r.err \notin ProtocolErrors)
      ]_vars

(***************************************************************************)
(* C4: ping/pong between a client session and a server session.  When the  *)
(* client's Ping(p) has reached the server, the server's read() returns    *)
(* Ping(p) and a Pong(p) is queued; when the server's Pong has reached the *)
(* client, the client's read() returns Pong(p), p being the payload of the *)
(* Ping.                                                                   *)
(***************************************************************************)
C4_PingPongEcho ==
    [][/\ (/\ Calls("Server", "read")
           /\ ws["Server"].state = "Active"
           /\ ws["Server"].additional_send = None
           /\ OnlyFrameArrived("Client", OpPing))
          => /\ last'["Server"].r = Ok(MsgPing(Log("Client")[1].payload))
             /\ IsSome(ws'["Server"].additional_send)
             /\ Unwrap(ws'["Server"].additional_send).header.opcode = OpPong
             /\ Unwrap(ws'["Server"].additional_send).payload
                   = Log("Client")[1].payload
       /\ (/\ Calls("Client", "read")
           /\ ws["Client"].state = "Active"
           /\ Len(Log("Client")) = 1
           /\ Log("Client")[1].header.opcode = OpPing
           /\ OnlyFrameArrived("Server", OpPong))
          => last'["Client"].r = Ok(MsgPong(Log("Client")[1].payload))
      ]_vars

(***************************************************************************)
(* C5: when a server session returns ConnectionClosed from read() or       *)
(* flush(), a Close frame of the peer has been received and the session's  *)
(* own Close frame is on the stream: the auxiliary slot and the write      *)
(* buffer hold nothing.  Stated for calls made on a session that was not   *)
(* terminated yet (what a terminated session returns is claim C2).         *)
(***************************************************************************)
C5_ClosedMeansHandshakeDone ==
    \A e \in Sessions :
        (ws[e].mode = "Server"
         /\ last[e].pre /= "Terminated"
         /\ (Returned(e, "read", "ConnectionClosed") \/ Returned(e, "flush", "ConnectionClosed")))
            => /\ HasClose(OnStream(e))
               /\ ws[e].additional_send = None
               /\ ws[e].frame.out_buffer = <<>>

(***************************************************************************)
(* C6: Text round trip.  The client session has written Message::Text(S)   *)
(* and the server session, which does not accept unmasked frames, calls    *)
(* read(): when all the bytes of the message have been flushed and carried *)
(* to the server, in whatever chunks, the call returns Message::Text(S);   *)
(* as long as some of them have not, it returns WouldBlock.                *)
(***************************************************************************)
C6_TextRoundTrip ==
    [][(Calls("Server", "read") /\ Len(Log("Client")) = 1)
          => IF /\ ws["Client"].frame.out_buffer = <<>>
                /\ stream["Client"].sent = WireLen("Client")
             THEN last'["Server"].r = Ok(MsgText(Log("Client")[1].payload))
             ELSE last'["Server"].r = Err("Io:WouldBlock")
      ]_vars

\* the frames fs are one message in fragments: a Text or Binary frame and
\* Continuation frames, the last of them, and only it, with fin
Fragmented(fs) ==
    /\ Len(fs) >= 2
    /\ fs[1].header.opcode \in {OpText, OpBinary}
    /\ \A i \in 2..Len(fs) : fs[i].header.opcode = OpContinuation
    /\ \A i \in 1..Len(fs) : fs[i].header.fin <=> i = Len(fs)

\* the payloads of the frames fs, one after the other
RECURSIVE Payloads(_)
Payloads(fs) == IF fs = <<>> THEN <<>> ELSE fs[1].payload \o Payloads(Tail(fs))

\* the message the fragments fs make
Reassembled(fs) ==
    IF fs[1].header.opcode = OpText THEN MsgText(Payloads(fs)) ELSE MsgBinary(Payloads(fs))

\* all that session e has sent is one message in fragments, text only if it
\* is UTF-8 as a whole, and every byte of it waits on the peer's stream
FragmentsArrived(e) ==
    /\ Fragmented(Log(e))
    /\ Log(e)[1].header.opcode = OpText => IsUtf8(Payloads(Log(e)))
    /\ ws[e].frame.out_buffer = <<>>
    /\ stream[e].sent = WireLen(e)

(***************************************************************************)
(* C7: when a Text or Binary frame without fin, any number of Continuation *)
(* frames without fin and one Continuation frame with fin have arrived, a  *)
(* single read() returns one message of the first frame's kind whose       *)
(* payload is the fragments' payloads in the order of arrival.             *)
(***************************************************************************)
C7_FragmentReassembly ==
    [][\A e \in Sessions :
          (Calls(Peer(e), "read") /\ FragmentsArrived(e))
              => last'[Peer(e)].r = Ok(Reassembled(Log(e)))
      ]_vars

\* a first read() has returned "H\u20AC!" from three fragments
C7_Witness ==
    \E e \in Sessions :
        /\ FragmentsArrived(e)
        /\ Len(log[e]) = 3
        /\ ops[Peer(e)] = 1
        /\ last[Peer(e)].op = "read"
        /\ last[Peer(e)].r = Ok(MsgText(<<72, 226, 130, 172, 33>>))

(***************************************************************************)
(* C8: every frame a server session has queued or written is unmasked, and *)
(* every frame a client session has queued or written carries a mask key   *)
(* and the XOR of its wire payload with that key is the payload of the     *)
(* frame the session was given: for the frames of write(), whatever kind   *)
(* of message it was passed, and for the frames queued automatically.      *)
(***************************************************************************)
C8_MaskedByRole ==
    \A e \in Sessions :
        /\ Len(Queued(e)) = Len(Log(e))
        /\ \A i \in 1..Len(Queued(e)) :
              IF ws[e].mode = "Server"
              THEN Queued(e)[i].header.mask = None
              ELSE /\ IsSome(Queued(e)[i].header.mask)
                   /\ apply_mask_default(Queued(e)[i].payload,
                                         Unwrap(Queued(e)[i].header.mask))
                         = Log(e)[i].payload

(***************************************************************************)
(* C9: every control frame the session has queued or written (Ping, Pong,  *)
(* Close) has fin = true.                                                  *)
(***************************************************************************)
C9_ControlFramesFin ==
    \A e \in Sessions : \A i \in 1..Len(Queued(e)) :
        IsControl(Queued(e)[i].header.opcode) => Queued(e)[i].header.fin

(***************************************************************************)
(* C10: whenever the session is in state ClosedByUs (ClosedByServer in the *)
(* code), its Close frame is in the write buffer or on the stream.         *)
(***************************************************************************)
C10_CloseFrameQueued ==
    \A e \in Sessions :
        ws[e].state = "ClosedByServer" => HasClose(Queued(e))

\* number of Close frames among the frames fs
Closes(fs) == Cardinality({i \in 1..Len(fs) : fs[i].header.opcode = OpClose})

\* Close frames of a session that holds aux in its auxiliary slot and whose
\* FrameCodec::write has accepted the frames fs
ClosesOf(aux, fs) == Closes(aux) + Closes(fs)

(***************************************************************************)
(* C11: a close() called in a state other than Active leaves the state as  *)
(* it is and makes no further Close frame, and the calls of close() put at *)
(* most one Close frame on the stream.                                     *)
(***************************************************************************)
C11_CloseIdempotent ==
    [][\A e \in Sessions :
          /\ (Calls(e, "close") /\ ws[e].state /= "Active")
                => /\ ws'[e].state = ws[e].state
                   /\ ClosesOf(ws'[e].additional_send, log'[e])
                         = ClosesOf(ws[e].additional_send, log[e])
          /\ Closes(OnStream(e)) <= 1
      ]_vars

(***************************************************************************)
(* C12: a write() called in state Terminated fails with AlreadyClosed, one *)
(* called in any other state than Active with Protocol(SendAfterClose),    *)
(* whatever the message; the session (state, write buffer, auxiliary slot) *)
(* is left as it was and nothing is written to the stream.                 *)
(***************************************************************************)
C12_WriteRefused ==
    [][\A e \in Sessions :
          (Calls(e, "write") /\ ws[e].state /= "Active")
              => /\ last'[e].r = IF ws[e].state = "Terminated"
                                 THEN Err("AlreadyClosed")
                                 ELSE Err("Protocol:SendAfterClose")
                 /\ ws'[e] = ws[e]
                 /\ wire'[e] = wire[e]
                 /\ log'[e] = log[e]
      ]_vars

\* a Close message has been refused by a terminated session
C12_Witness ==
    \E e \in Sessions :
        /\ last[e].op = "write"
        /\ last[e].pre = "Terminated"
        /\ last[e].arg = Some("Close")
        /\ last[e].r = Err("AlreadyClosed")
        /\ ws[e].state = "Terminated"

\* the frame of the message msg as a session of the given mode puts it in
\* its write buffer: a client's frame carries a masking key
BufferedFrame(msg, mode) ==
    IF mode = "Client" THEN [FrameOf(msg) EXCEPT !.header.mask = Some(<<0, 0, 0, 0>>)]
    ELSE FrameOf(msg)

\* the write buffer of session e has no room for the frame of msg
Overflows(e, msg) ==
    FrameLen(BufferedFrame(msg, ws[e].mode)) + Len(ws[e].frame.out_buffer)
        > ws[e].frame.max_out_buffer_len

(***************************************************************************)
(* C13: a write() in state Active whose frame does not fit the write       *)
(* buffer returns WriteBufferFull, leaves the write buffer as it was and   *)
(* the state Active; a write() that follows a flush() that returned Ok is  *)
(* not refused with WriteBufferFull if its frame fits an empty buffer.     *)
(***************************************************************************)
C13_Backpressure ==
    [][\A e \in Sessions, msg \in AllMsgs :
          (Calls(e, "write") /\ last'[e].arg = Some(msg.type) /\ ws[e].state = "Active")
              => /\ Overflows(e, msg)
                    => /\ last'[e].r = Err("WriteBufferFull")
                       /\ ws'[e].frame.out_buffer = ws[e].frame.out_buffer
                       /\ ws'[e].state = "Active"
                 /\ (/\ last[e].op = "flush" /\ last[e].r.ok
                     /\ FrameLen(BufferedFrame(msg, ws[e].mode)) <= ws[e].frame.max_out_buffer_len)
                    => last'[e].r /= Err("WriteBufferFull")
      ]_vars

\* the frames fs without their masking keys
Plain(fs) == [i \in 1..Len(fs) |-> [fs[i] EXCEPT !.header.mask = None]]

IsPrefix(a, b) == Len(a) <= Len(b) /\ a = SubSeq(b, 1, Len(a))

(***************************************************************************)
(* C14: the frames a session has put in its write buffer are, in this      *)
(* order and once each, the frames of the messages its write() calls did   *)
(* not refuse, and all of them once the session holds no frame back.       *)
(* (In SpecFlow the session makes no frame of its own accord.)             *)
(***************************************************************************)
C14_WriteOrder ==
    \A e \in Sessions :
        /\ IsPrefix(Plain(log[e]), Plain(hist[e].accepted))
        /\ ws[e].additional_send = None
              => Len(log[e]) = Len(hist[e].accepted)

\* the frames of after that follow those of before
Added(before, after) == SubSeq(after, Len(before) + 1, Len(after))

\* a read() of session e has just returned a Ping and its Pong waits in the
\* auxiliary slot
PongPending(e) ==
    /\ last[e].op = "read" /\ last[e].r.ok /\ last[e].r.val.type = "Ping"
    /\ ws[e].state = "Active"
    /\ ws[e].additional_send = Some(new_pong(last[e].r.val.data))

(***************************************************************************)
(* C15: when read() has returned a Ping and the next call is a write() of  *)
(* a Text, Binary or Ping message whose frame is buffered, the Pong that   *)
(* answers the Ping is buffered before that frame.                         *)
(***************************************************************************)
C15_PongBeforeMessage ==
    [][\A e \in Sessions :
          (/\ Calls(e, "write")
           /\ last'[e].arg \in {Some("Text"), Some("Binary"), Some("Ping")}
           /\ PongPending(e)
           /\ Len(log'[e]) > Len(log[e]))
              => Added(log[e], log'[e])[1].header.opcode = OpPong
      ]_vars

\* the auxiliary slot of session e holds a Close frame
HoldsClose(aux) == aux /= None /\ Unwrap(aux).header.opcode = OpClose

\* the frame in the slot aux is among the frames fs
MovedInto(aux, fs) ==
    \E i \in 1..Len(fs) : Plain(fs)[i] = Plain(BlockFrames(aux))[1]

(***************************************************************************)
(* C16: the auxiliary slot takes a new frame only when it is empty or      *)
(* holds a Pong, and a Close frame in the slot stays there, unchanged,     *)
(* until a step moves it into the write buffer and leaves the slot empty.  *)
(***************************************************************************)
C16_CloseEchoKept ==
    [][\A e \in Sessions :
          /\ HoldsClose(ws[e].additional_send)
                => \/ /\ ws'[e].additional_send = ws[e].additional_send
                      /\ Closes(log'[e]) = Closes(log[e])
                   \/ /\ ws'[e].additional_send = None
                      /\ MovedInto(ws[e].additional_send, Added(log[e], log'[e]))
                      /\ Closes(log'[e]) = Closes(log[e]) + 1
          /\ (ws'[e].additional_send /= ws[e].additional_send
                /\ ws'[e].additional_send /= None)
                => \/ ws[e].additional_send = None
                   \/ Unwrap(ws[e].additional_send).header.opcode = OpPong
      ]_vars

\* a write() of a Pong has found the Close echo in the slot and left it there
C16_Witness ==
    \E e \in Sessions :
        /\ last[e].op = "write" /\ last[e].arg = Some("Pong")
        /\ last[e].pre = "ClosedByPeer"
        /\ HoldsClose(ws[e].additional_send)

(***************************************************************************)
(* C17: when flush() returns Ok the session holds nothing back: the write  *)
(* buffer is empty and the auxiliary slot is empty.                        *)
(***************************************************************************)
C17_FlushBarrier ==
    [][\A e \in Sessions :
          (Calls(e, "flush") /\ last'[e].r.ok)
              => /\ ws'[e].frame.out_buffer = <<>>
                 /\ ws'[e].additional_send = None
      ]_vars

\* the bytes that have reached session e and that it has not parsed
Arrived(e) == ws[e].frame.in_buffer \o stream[e].rx

\* exactly the frame has reached session e and waits to be read
Awaits(e, frame) ==
    ws[e].frame.header = None /\ Arrived(e) = WireBytes(e, frame, PeerKey)

(***************************************************************************)
(* C18: a session has an unfinished message only from a read() that met a  *)
(* non-final Text or Binary frame while it had none, and a read() that     *)
(* meets a Text or Binary frame while it has one fails with                *)
(* Protocol(ExpectedFragment) and leaves the unfinished message as it was. *)
(***************************************************************************)
C18_OneIncomplete ==
    [][\A e \in Sessions :
          /\ ws'[e].incomplete /= ws[e].incomplete => Calls(e, "read")
          /\ \A frame \in RawFrames :
                (Calls(e, "read") /\ Awaits(e, frame))
                    => /\ (ws[e].incomplete /= None
                             /\ frame.header.opcode \in {OpText, OpBinary})
                          => /\ last'[e].r = Err("Protocol:ExpectedFragment")
                             /\ ws'[e].incomplete = ws[e].incomplete
                       /\ (ws[e].incomplete = None /\ ws'[e].incomplete /= None)
                          => /\ frame.header.opcode \in {OpText, OpBinary}
                             /\ ~frame.header.fin
      ]_vars

\* a read() has refused a Text or Binary frame and the unfinished message is
\* still there
C18_Witness ==
    \E e \in Sessions :
        /\ last[e].op = "read" /\ last[e].r = Err("Protocol:ExpectedFragment")
        /\ ws[e].incomplete /= None
        /\ Arrived(e) = <<>>
        /\ ops[e] >= 2

\* the unfinished message of session e, if any, has so many bytes
Collected(e) ==
    IF ws[e].incomplete = None THEN 0 ELSE IncompleteLen(Unwrap(ws[e].incomplete))

\* the frame is one that adds to a message of session e, or is one by itself
AddsTo(e, frame) ==
    IF ws[e].incomplete = None THEN frame.header.opcode \in {OpText, OpBinary}
    ELSE frame.header.opcode = OpContinuation

(***************************************************************************)
(* C19: with max_message_size set, read() returns no Text or Binary        *)
(* message with a longer payload, and the read() that meets the frame      *)
(* whose payload takes the message beyond the limit fails with             *)
(* Capacity(MessageTooLarge).                                              *)
(***************************************************************************)
C19_MessageSizeLimit ==
    [][\A e \in Sessions :
          Calls(e, "read") =>
              /\ (/\ last'[e].r.ok
                  /\ last'[e].r.val.type \in {"Text", "Binary"}
                  /\ ws[e].config.max_message_size /= None)
                    => Len(last'[e].r.val.data) <= Unwrap(ws[e].config.max_message_size)
              /\ \A frame \in RawFrames :
                    (/\ Awaits(e, frame)
                     /\ AddsTo(e, frame)
                     /\ ws[e].config.max_message_size /= None
                     /\ Collected(e) + Len(frame.payload)
                           > Unwrap(ws[e].config.max_message_size))
                        => last'[e].r.err = "Capacity:MessageTooLarge"
      ]_vars

\* a read() has returned a message of two fragments that is as long as the
\* limit allows
C19_Witness ==
    \E e \in Sessions :
        /\ last[e].op = "read" /\ last[e].r.ok
        /\ last[e].r.val.type \in {"Text", "Binary"}
        /\ Some(Len(last[e].r.val.data)) = ws[e].config.max_message_size
        /\ inj[e] = 2

\* only the header of a frame with a payload of the given length has reached
\* session e
AwaitsHeader(e, length) ==
    ws[e].frame.header = None /\ Arrived(e) = HeaderFormat(RawHeader(e), length)

(***************************************************************************)
(* C20: a read() that meets the header of a frame whose declared payload   *)
(* length L is beyond max_frame_size fails with                            *)
(* Capacity(MessageTooLarge {size: L, max: max_frame_size}) although no    *)
(* byte of the payload has arrived.                                        *)
(***************************************************************************)
C20_OversizeFrame ==
    [][\A e \in Sessions, length \in RawLengths :
          (/\ Calls(e, "read")
           /\ AwaitsHeader(e, length)
           /\ ws[e].config.max_frame_size /= None
           /\ length > Unwrap(ws[e].config.max_frame_size))
              => last'[e].r = MessageTooLarge(length, Unwrap(ws[e].config.max_frame_size))
      ]_vars

\* a read() has refused a header that declares 200 bytes, of which none is there
C20_Witness ==
    \E e \in Sessions :
        /\ last[e].op = "read"
        /\ last[e].r = MessageTooLarge(200, Unwrap(ws[e].config.max_frame_size))
        /\ Arrived(e) = <<>>
        /\ inj[e] = 1

\* exactly the frame, masked or not, has reached session e and waits to be read
AwaitsRaw(e, frame, masked) ==
    ws[e].frame.header = None /\ Arrived(e) = CtlWire[frame, masked]

\* the frames a session with aux in its auxiliary slot has buffered or queued
Held(fs, aux) == Plain(fs \o BlockFrames(aux))

\* what a read() that rejects a frame leaves as it was: the close state, the
\* unfinished message and the frames buffered or queued (c, fs before the
\* call, d, gs after it)
Untouched(c, fs, d, gs) ==
    /\ d.state = c.state
    /\ d.incomplete = c.incomplete
    /\ Held(gs, d.additional_send) = Held(fs, c.additional_send)

IsControlFrame(frame) == IsControl(frame.header.opcode)

\* the frame is masked as the role of session e asks
ProperlyMasked(e, masked) == masked <=> ws[e].mode = "Server"

(***************************************************************************)
(* C22: a read() that meets a control frame with fin = false returns       *)
(* Protocol(FragmentedControlFrame), one that meets a final control frame  *)
(* with more than 125 bytes of payload returns Protocol(ControlFrameTooBig)*)
(* and in both cases the close state is unchanged and no Pong and no Close *)
(* is queued.                                                              *)
(***************************************************************************)
C22_ControlValidated ==
    [][\A e \in Sessions, frame \in CtlFrames, masked \in BOOLEAN :
          (/\ Calls(e, "read")
           /\ AwaitsRaw(e, frame, masked)
           /\ ProperlyMasked(e, masked)
           /\ can_read(ws[e].state)
           /\ IsControlFrame(frame))
              => /\ ~frame.header.fin
                    => /\ last'[e].r = Err("Protocol:FragmentedControlFrame")
                       /\ Untouched(ws[e], log[e], ws'[e], log'[e])
                 /\ (frame.header.fin /\ Len(frame.payload) > 125)
                    => /\ last'[e].r = Err("Protocol:ControlFrameTooBig")
                       /\ Untouched(ws[e], log[e], ws'[e], log'[e])
      ]_vars

\* an Active session has refused a fragmented control frame and is still
\* Active with nothing queued
C22_Witness ==
    \E e \in Sessions :
        /\ last[e].op = "read" /\ last[e].r = Err("Protocol:FragmentedControlFrame")
        /\ last[e].pre = "Active" /\ ws[e].state = "Active"
        /\ ws[e].additional_send = None
        /\ Arrived(e) = <<>>
        /\ inj[e] = 1

\* the message a final Text, Binary, Ping or Pong frame is surfaced as
MessageOf(frame) ==
    CASE frame.header.opcode = OpText -> MsgText(frame.payload)
      [] frame.header.opcode = OpBinary -> MsgBinary(frame.payload)
      [] frame.header.opcode = OpPing -> MsgPing(frame.payload)
      [] frame.header.opcode = OpPong -> MsgPong(frame.payload)

\* the frame is a whole Text, Binary, Ping or Pong message
Deliverable(frame) ==
    /\ frame.header.opcode \in {OpText, OpBinary, OpPing, OpPong}
    /\ frame.header.fin
    /\ Len(frame.payload) <= MAX_CONTROL_FRAME_PAYLOAD

FailsSession(r) == ~r.ok /\ (r.err \in ProtocolErrors \/ r.err = "Capacity:MessageTooLarge")

(***************************************************************************)
(* C24: a read() that returns Error::Protocol or Error::Capacity leaves    *)
(* the session not Active, so that can_write() is false, and the read()    *)
(* after it returns no message.                                            *)
(***************************************************************************)
C24_ErrorFailsSession ==
    [][\A e \in Sessions :
          /\ (Calls(e, "read") /\ FailsSession(last'[e].r)) => ~ws_can_write(ws'[e])
          /\ (Calls(e, "read") /\ last[e].op = "read" /\ FailsSession(last[e].r))
                => ~last'[e].r.ok
      ]_vars

\* the close code of a Close frame's payload is synthetic (1005, 1006, 1015)
\* or in a band that is not to be sent (0-999, 1016-2999)
UnsendableCode(payload) ==
    /\ Len(payload) >= 2
    /\ FromBe(Take(payload, 2)) \in {1005, 1006, 1015} \cup 0..999 \cup 1016..2999

(***************************************************************************)
(* C25: no Close frame a session has written to its stream carries a close *)
(* code that is synthetic or in a bad or reserved band.                    *)
(***************************************************************************)
C25_CloseCodeSendable ==
    \A e \in Sessions :
        ws[e].frame.out_buffer = <<>>
            => \A i \in 1..Len(log[e]) :
                  log[e][i].header.opcode = OpClose
                      => ~UnsendableCode(Flat(log[e][i].payload))

\* "Protocol violation"
ProtocolViolation ==
    <<80, 114, 111, 116, 111, 99, 111, 108, 32, 118, 105, 111, 108, 97, 116, 105, 111, 110>>

\* the close frame that answers the peer's: its own if the code is allowed,
\* {1002, "Protocol violation"} otherwise
Answer(close) ==
    IF IsSome(close) /\ ~allowed(Unwrap(close).code)
    THEN Some(CloseFrame(CloseCodeFromU16(1002), ProtocolViolation))
    ELSE close

\* the peer's Close frames with the close frame each carries
PeerCloses == {CloseBye, CloseStatus, None}

(***************************************************************************)
(* C26: a read() of an Active session that meets a Close frame leaves the  *)
(* session ClosedByPeer, returns the peer's close frame and queues an echo *)
(* of it; when the peer's code is not allowed, both carry code 1002 and    *)
(* the reason "Protocol violation" instead.                                *)
(***************************************************************************)
C26_CloseEcho ==
    [][\A e \in Sessions, close \in PeerCloses, masked \in BOOLEAN :
          (/\ Calls(e, "read")
           /\ ws[e].state = "Active"
           /\ AwaitsRaw(e, WithFin(new_close(close), TRUE), masked)
           /\ ProperlyMasked(e, masked))
              => /\ ws'[e].state = "ClosedByPeer"
                 /\ last'[e].r = Ok(MsgClose(Answer(close)))
                 /\ ws'[e].additional_send = Some(new_close(Answer(close)))
      ]_vars

(***************************************************************************)
(* C27: a read() of a session in ClosedByServer that meets a Close frame   *)
(* leaves the session CloseAcknowledged and returns the peer's close frame *)
(* as it came; it queues no frame, and when nothing waited to be flushed   *)
(* the auxiliary slot and the write buffer are as before.                  *)
(***************************************************************************)
C27_CloseAcknowledged ==
    [][\A e \in Sessions, close \in PeerCloses, masked \in BOOLEAN :
          (/\ Calls(e, "read")
           /\ ws[e].state = "ClosedByServer"
           /\ AwaitsRaw(e, WithFin(new_close(close), TRUE), masked)
           /\ ProperlyMasked(e, masked))
              => /\ ws'[e].state = "CloseAcknowledged"
                 /\ last'[e].r = Ok(MsgClose(close))
                 /\ Held(log'[e], ws'[e].additional_send)
                       = Held(log[e], ws[e].additional_send)
                 /\ (ws[e].additional_send = None /\ ~ws[e].unflushed_additional)
                       => /\ ws'[e].additional_send = None
                          /\ ws'[e].frame.out_buffer = ws[e].frame.out_buffer
      ]_vars

\* a session has read the Close with the code 1005 that answers its close()
C27_Witness ==
    \E e \in Sessions :
        /\ last[e].op = "read" /\ last[e].pre = "ClosedByServer"
        /\ last[e].r = Ok(MsgClose(CloseStatus))
        /\ ws[e].state = "CloseAcknowledged"
        /\ ws[e].additional_send = None

(***************************************************************************)
(* C28: a read() of a session in ClosedByPeer or CloseAcknowledged that    *)
(* takes a Close frame from the stream ignores it: the state stays, the    *)
(* frame is not returned as a message and the call reports no error for    *)
(* it, so that with nothing more to read it returns WouldBlock.            *)
(***************************************************************************)
C28_DuplicateCloseIgnored ==
    [][\A e \in Sessions, close \in PeerCloses, masked \in BOOLEAN :
          (/\ Calls(e, "read")
           /\ ws[e].state \in {"ClosedByPeer", "CloseAcknowledged"}
           /\ AwaitsRaw(e, WithFin(new_close(close), TRUE), masked)
           /\ ProperlyMasked(e, masked)
           /\ stream'[e].rx = <<>> /\ ws'[e].frame.in_buffer = <<>>)
              => /\ ws'[e].state = ws[e].state
                 /\ last'[e].r = Err("Io:WouldBlock")
      ]_vars

(***************************************************************************)
(* C29: a read() of a server session in ClosedByPeer or CloseAcknowledged  *)
(* takes nothing from the stream: it leaves the session Terminated and     *)
(* returns ConnectionClosed, whether or not the transport takes the bytes  *)
(* of the frame that waits in the auxiliary slot.                          *)
(***************************************************************************)
C29_ServerStopsReading ==
    [][\A e \in Sessions :
          (/\ Calls(e, "read")
           /\ ws[e].mode = "Server"
           /\ ws[e].state \in {"ClosedByPeer", "CloseAcknowledged"})
              => /\ ws'[e].state = "Terminated"
                 /\ last'[e].r = Err("ConnectionClosed")
                 /\ stream'[e].rx = stream[e].rx
                 /\ ws'[e].frame.in_buffer = ws[e].frame.in_buffer
                 /\ ws'[e].frame.header = ws[e].frame.header
      ]_vars

(***************************************************************************)
(* C30: whenever read() returns a Ping, in Active or in ClosedByServer,    *)
(* the auxiliary slot holds a Pong with the payload of that Ping.          *)
(***************************************************************************)
C30_PongQueued ==
    [][\A e \in Sessions :
          (Calls(e, "read") /\ last'[e].r.ok /\ last'[e].r.val.type = "Ping")
              => ws'[e].additional_send = Some(new_pong(last'[e].r.val.data))
      ]_vars

(***************************************************************************)
(* C31: no call of a session whose state does not allow reading returns    *)
(* Io(ConnectionReset): there a reset of the connection is reported as     *)
(* ConnectionClosed; and no call that leaves the session in a state that   *)
(* allows reading returns ConnectionClosed.                                *)
(***************************************************************************)
C31_ResetReported ==
    [][\A e \in Sessions :
          ops'[e] = ops[e] + 1
              => /\ ~can_read(ws[e].state) => last'[e].r.err /= "Io:ConnectionReset"
                 /\ can_read(ws'[e].state) => last'[e].r.err /= "ConnectionClosed"
      ]_vars

\* the random inputs of the reads that drain a stream
DrainRnd == [k1 |-> <<1, 2, 3, 4>>, k2 |-> <<255, 0, 170, 85>>, align |-> 0]

\* the transport t as a call sees it, holding the bytes rx
Holding(t, rx) ==
    [rx |-> rx, rdMode |-> t.rdMode, rdMax |-> t.rdMax, wrMode |-> t.wrMode,
     wrCap |-> t.wrCap, flushBlock |-> t.flushBlock, tx |-> <<>>,
     sent |-> t.sent, log |-> <<>>]

RECURSIVE Drained(_)

\* what read() after read() returns, from the call that returned rd on, up
\* to and with the first call that fails
Drained(rd) ==
    IF ~rd.r.ok THEN <<rd.r>>
    ELSE <<rd.r>> \o Drained(ws_read(rd.c, [rd.s EXCEPT !.tx = <<>>, !.log = <<>>], DrainRnd))

\* what read() after read() returns to a session in context c whose stream
\* t holds the bytes rx
Delivers(c, t, rx) == Drained(ws_read(c, Holding(t, rx), DrainRnd))

\* the bytes session e has written that the transport has not carried yet
Underway(e) == Slice(wire[e], stream[e].sent, WireLen(e) - stream[e].sent)

(***************************************************************************)
(* C32: a read() that returns Io(WouldBlock) leaves the close state as it  *)
(* was, and what the reads after it return, once the bytes still underway  *)
(* have arrived, is what the reads would have returned had those bytes     *)
(* been on the stream before the call: the buffered bytes, the parked      *)
(* header and the IncompleteMessage are kept.                              *)
(***************************************************************************)
C32_WouldBlockResumes ==
    [][\A e \in Sessions :
          (Calls(e, "read") /\ last'[e].r = Err("Io:WouldBlock"))
              => /\ ws'[e].state = ws[e].state
                 /\ Delivers(ws'[e], stream'[e], Underway(Peer(e)))
                      = Delivers(ws[e], stream[e], stream[e].rx \o Underway(Peer(e)))
      ]_vars

\* three fragments came in three chunks, a read() after each: the first
\* two returned WouldBlock and the third "H€!"
C32_Witness ==
    /\ Len(log["Client"]) = 3
    /\ Fragmented(Log("Client"))
    /\ stream["Client"].sent = WireLen("Client")
    /\ inj["Server"] = 3
    /\ ops["Server"] = 3
    /\ IsSome(ws["Server"].incomplete) = FALSE
    /\ last["Server"].r = Ok(MsgText(<<72, 226, 130, 172, 33>>))

(***************************************************************************)
(* C37: format writes 2 bytes, 0, 2 or 8 bytes of length (none below 126,  *)
(* 2 below 65536, 8 from there on) and 4 bytes of mask when there is one;  *)
(* parse of all of them returns the header and the length that were        *)
(* formatted and moves the cursor past them; parse of fewer of them        *)
(* returns None and leaves the cursor where it was.                        *)
(***************************************************************************)
C37_HeaderRoundTrip ==
    /\ ops >= 1 =>
          Len(wire) = 2 + (IF ws.length < 126 THEN 0 ELSE IF ws.length < 65536 THEN 2 ELSE 8)
                        + (IF IsSome(ws.header.mask) THEN 4 ELSE 0)
    /\ (ops = 3 /\ inj = Len(wire)) =>
          /\ last.r = Ok(Some([header |-> ws.header, len |-> ws.length, used |-> Len(wire)]))
          /\ stream.pos = last.pre + Len(wire)
    /\ (ops = 3 /\ inj < Len(wire)) =>
          /\ last.r = Ok(None)
          /\ stream.pos = last.pre

\* how far the closing of a session in the given state has come
Rank(state) ==
    CASE state = "Active" -> 0
      [] state \in {"ClosedByServer", "ClosedByPeer"} -> 1
      [] state = "CloseAcknowledged" -> 2
      [] OTHER -> 3

(***************************************************************************)
(* C38: whatever is called and whatever the stream does, the state of a    *)
(* session stays or moves forward in the order Active, then ClosedByServer *)
(* or ClosedByPeer, then CloseAcknowledged, then Terminated: it never      *)
(* returns to Active, never changes between ClosedByServer and             *)
(* ClosedByPeer and never leaves Terminated; and no call enters try_close  *)
(* in the state Terminated, whose arm is unreachable!().                   *)
(***************************************************************************)
C38_CloseStateMonotone ==
    [][\A e \in Sessions :
          /\ ws'[e].state = ws[e].state \/ Rank(ws'[e].state) > Rank(ws[e].state)
          /\ last'[e].r /= Err("Panic:unreachable")
      ]_vars

\* a session has closed, read the peer's Close, met the end of the stream
\* and is Terminated
C38_Witness ==
    \E e \in Sessions :
        /\ hist[e].closed_ok
        /\ hist[e].acked
        /\ ws[e].state = "Terminated"
        /\ last[e].op = "read"
        /\ last[e].pre = "CloseAcknowledged"

\* the header parked in the codec of session e declares more than
\* max_frame_size bytes
OversizeParked(e) ==
    /\ ws[e].config.max_frame_size /= None
    /\ ws[e].frame.header /= None
    /\ Unwrap(ws[e].frame.header).len > Unwrap(ws[e].config.max_frame_size)

(***************************************************************************)
(* C39: no read() returns a message made of a frame whose declared payload *)
(* length is beyond max_frame_size: a read() that starts with the header   *)
(* of such a frame parked, which is the frame it handles first, as after a *)
(* read() that failed with MessageTooLarge, returns no message.            *)
(***************************************************************************)
C39_OversizeNeverDelivered ==
    [][\A e \in Sessions :
          (Calls(e, "read") /\ OversizeParked(e)) => ~last'[e].r.ok
      ]_vars

\* a read() of session e now meets the end of the stream: the stream is at
\* its end once what has arrived is consumed, and the same call on a stream
\* that blocks there instead would return WouldBlock
MeetsEof(c, t) ==
    /\ t.rdMode = "eof"
    /\ ws_read(c, Holding([t EXCEPT !.rdMode = "block"], t.rx), DrainRnd).r = Err("Io:WouldBlock")

(***************************************************************************)
(* C40: a read() in which the stream's read returns zero bytes leaves the  *)
(* session Terminated, with or without the beginning of a frame or a       *)
(* parked header in the codec, and returns ConnectionClosed when the state *)
(* was ClosedByPeer or CloseAcknowledged and Protocol(ResetWithoutClosing) *)
(* when it was Active or ClosedByServer; a read() or write() of a          *)
(* Terminated session returns AlreadyClosed.                               *)
(***************************************************************************)
C40_EofTerminates ==
    [][\A e \in Sessions :
          /\ (Calls(e, "read") /\ MeetsEof(ws[e], stream[e]))
                => /\ ws'[e].state = "Terminated"
                   /\ last'[e].r = IF ws[e].state \in {"ClosedByPeer", "CloseAcknowledged"}
                                   THEN Err("ConnectionClosed")
                                   ELSE Err("Protocol:ResetWithoutClosing")
          /\ ((Calls(e, "read") \/ Calls(e, "write")) /\ ws[e].state = "Terminated")
                => last'[e].r = Err("AlreadyClosed")
      ]_vars

\* a client session whose codec held a parked header met the end of the
\* stream, and its next call returned AlreadyClosed
C40_Witness ==
    \E e \in Sessions :
        /\ ws[e].mode = "Client"
        /\ ws[e].state = "Terminated"
        /\ ws[e].frame.header /= None
        /\ ops[e] = 3
        /\ last[e].pre = "Terminated"
        /\ last[e].r = Err("AlreadyClosed")

(***************************************************************************)
(* C34: after each read of the Reading stage the check fails with          *)
(* AttackAttempt exactly when more than 65536 bytes were read in all, or   *)
(* more than 512 reads were made, or more than 64 reads were made and the  *)
(* bytes are fewer than 128 times the reads; so a check that passed leaves *)
(* at most 65536 bytes and 512 reads, and a peer whose reads give 100      *)
(* bytes each has failed before its 80th read is kept.                     *)
(***************************************************************************)
C34_AttackCheck ==
    last.op = "check_incoming_packet" =>
        /\ ~last.r.ok <=> (\/ ws.bytes > 65536
                           \/ ws.packets > 512
                           \/ (ws.packets > 64 /\ ws.bytes < 128 * ws.packets))
        /\ ~last.r.ok => last.r = Err("AttackAttempt")
        /\ last.r.ok => (ws.bytes <= 65536 /\ ws.packets <= 512)
        /\ (stream.first = 100 /\ stream.rest = 100 /\ last.r.ok) => ws.packets < 80

\* the 65th read of a peer that drips 100 bytes a read has failed
C34_Witness ==
    /\ stream = [first |-> 100, rest |-> 100]
    /\ ws = [packets |-> 65, bytes |-> 6500]
    /\ last.r = Err("AttackAttempt")

(***************************************************************************)
(* C36: when the client handshake succeeds, the bytes that were read after *)
(* the end of the 101 response, the tail of DoneReading, are the first     *)
(* bytes the codec of the new Client session holds: none of what the       *)
(* server sent right after its response is lost.                           *)
(***************************************************************************)
C36_TailHandedOver ==
    [][(IsMid(ws["Client"]) /\ IsSession(ws'["Client"]))
          => /\ ws'["Client"].mode = "Client"
             /\ ws'["Client"].frame.in_buffer = Unwrap(last'["Client"].arg)
      ]_vars

(***************************************************************************)
(* C35: a handshake() call ends with the session, with a Failure error or, *)
(* where the stream would block, with Interrupted; it never panics, and    *)
(* the rounds it makes are bounded by the bytes it has to write and the    *)
(* reads the stream answers.                                               *)
(***************************************************************************)
C35_HandshakeTerminates ==
    \A e \in Sessions :
        last[e].op = "handshake"
            => /\ last[e].r /= Err("Panic")
               /\ last[e].rounds <= Len(RequestBytes) + 1 + MAX_PACKETS + 1

\* the bytes of the server's reply that have reached the client's stream
Carried == Slice(wire["Server"], 0, stream["Server"].sent)

\* the stream record s as a call sees it
Seen(s) ==
    [rx |-> s.rx, rdMode |-> s.rdMode, rdMax |-> s.rdMax, wrMode |-> s.wrMode,
     wrCap |-> s.wrCap, flushBlock |-> s.flushBlock, tx |-> <<>>, sent |-> s.sent,
     log |-> <<>>]

\* sr is what a round of mid on the stream st returned: where it would
\* block, the machine and the stream are as they were
BlocksInPlace(mid, st, sr) ==
    sr.kind = "WouldBlock" => (Unwrap(sr.m) = mid.machine /\ sr.s = st)

\* sr, the next round of mid, would block
BlocksAgain(mid, sr) == sr.kind = "WouldBlock" /\ Unwrap(sr.m) = mid.machine

\* the request as the handshake x has put it on the stream so far
WrittenOnce(x) ==
    CASE IsMid(x) /\ x.machine.state = "Writing" ->
            Wire("Client") \o Drop(x.machine.data, x.machine.position) = RequestBytes
      [] IsMid(x) \/ IsSession(x) -> Wire("Client") = RequestBytes
      [] OTHER -> IsPrefix(Wire("Client"), RequestBytes)

\* the reply as the handshake x holds it: what was read and what is still
\* in the stream are the bytes that arrived, and each read was counted once
ReadOnce(x, rx) ==
    CASE IsMid(x) /\ x.machine.state = "Reading" ->
            /\ chunk(x.machine.buf) \o rx = Carried
            /\ x.machine.attack_check.bytes = Len(chunk(x.machine.buf))
            /\ x.machine.attack_check.packets <= Len(chunk(x.machine.buf))
      [] IsMid(x) -> rx = Carried
      [] OTHER -> TRUE

\* the reply when the stage Reading has finished with the tail given: the
\* head that was parsed, the tail and what is still in the stream are the
\* bytes that arrived
ParsedOnce(l, rx) ==
    (l.op = "handshake" /\ IsSome(l.arg))
        => Take(Carried, HeadLen(Carried)) \o Unwrap(l.arg) \o rx = Carried

(***************************************************************************)
(* C33: handshake progress survives WouldBlock.  A round that would block  *)
(* gives back the machine in the same stage, with the same unwritten       *)
(* bytes, read buffer and attack counters, and leaves the stream alone; a  *)
(* handshake() that returned Interrupted left a MidHandshake whose next    *)
(* round is that same round.  So, however the calls are interrupted, the   *)
(* request is on the stream once and in order, and the bytes that arrived  *)
(* are the bytes held (parsed head, buffer or tail) and the bytes still in *)
(* the stream, each once.                                                  *)
(***************************************************************************)
C33_ProgressSurvivesWouldBlock ==
    /\ [](/\ IsMid(ws["Client"])
               => BlocksInPlace(ws["Client"], StreamOf("Client"),
                                single_round(ws["Client"].machine, StreamOf("Client")))
          /\ WrittenOnce(ws["Client"])
          /\ ReadOnce(ws["Client"], stream["Client"].rx)
          /\ ParsedOnce(last["Client"], stream["Client"].rx))
    /\ [][(IsMid(ws["Client"]) /\ last'["Client"] /= last["Client"]
               /\ last'["Client"].r = Err("Interrupted"))
            => /\ IsMid(ws'["Client"])
               /\ BlocksAgain(ws'["Client"],
                              single_round(ws'["Client"].machine, Seen(stream'["Client"])))
         ]_vars

\* the third handshake() has been interrupted in Reading with a part of the
\* response in the buffer, after the whole request was written
C33_Witness ==
    /\ IsMid(ws["Client"])
    /\ ws["Client"].machine.state = "Reading"
    /\ chunk(ws["Client"].machine.buf) /= <<>>
    /\ last["Client"].r = Err("Interrupted")
    /\ ops["Client"] >= 3

====
